---------------------------- MODULE Spec2Model ----------------------------
(***************************************************************************)
(* Money Mindset: the simulation calculators of the frontend pages and the *)
(* progression rules, as state machines.                                   *)
(*                                                                         *)
(* Money is kept in whole cents (or in the exact fractions named at each   *)
(* definition); percentages that the sliders move in half steps are kept   *)
(* doubled.  Each page has its own variables and its own specification;    *)
(* the variables of the other pages stay at their initial values.          *)
(***************************************************************************)
EXTENDS Integers, Sequences, FiniteSets, TLC

Min(a, b) == IF a <= b THEN a ELSE b
Max(a, b) == IF a >= b THEN a ELSE b
Abs(a) == IF a >= 0 THEN a ELSE 0 - a

(***************************************************************************)
(* Credit-card page (unnamed/part_015)                                     *)
(***************************************************************************)
VARIABLES
    ccStep,            \* CreditCardPage.currentStep
    balance,           \* StepDebtSetup.balance, dollars
    apr2,              \* StepDebtSetup.apr, doubled (44 is 22.0%)
    ccPc,              \* position inside StepCompare's results = strategies.map(...)
    strategyIdx,       \* index of the strategy whose payoff is being computed
    remainingBalance,  \* calculatePayoff local, cents
    totalPaid,         \* calculatePayoff local, cents
    months,            \* calculatePayoff local
    result,            \* value returned by the current calculatePayoff call
    results            \* StepCompare.results, in strategy order

ccVars == <<ccStep, balance, apr2, ccPc, strategyIdx, remainingBalance,
            totalPaid, months, result, results>>

\* bounds of the explored slider positions
MaxBalanceSteps == 14
AprChoices == {30, 44, 60}

BalanceMin == 1000
BalanceStep == 500
CapMonths == 600
Infinity == 2147483647

BalanceChoices == {BalanceMin + BalanceStep * k : k \in 0..MaxBalanceSteps}

\* strategies[i].monthlyPayment in cents; Math.max(25, balance * 0.02)
MinimumPayment(b) == Max(2500, b * 2)
MonthlyPayment(i, b) ==
    CASE i = 1 -> MinimumPayment(b)
      [] i = 2 -> 10000
      [] i = 3 -> 20000
      [] i = 4 -> 40000

\* monthlyRate = apr / 100 / 12 in double arithmetic.  The double nearest to
\* the quotient lies below it for 15% (0.012499999999999999) and for 30%
\* (0.024999999999999998); for 22% no product with a slider balance meets a
\* payment exactly, so the direction is immaterial there.
RateRoundsDown(a2) == a2 \in {30, 60}

\* interestCharge = remainingBalance * monthlyRate, in cents rounded down
InterestCharge(rem, a2) == (rem * a2) \div 2400

\* principalPayment = Math.min(monthlyPayment - interestCharge, remainingBalance)
PrincipalPayment(pay, rem, a2) == Min(pay - InterestCharge(rem, a2), rem)

\* if (principalPayment <= 0): the sign of monthlyPayment - interestCharge as
\* the doubles give it.  Where the payment equals the interest exactly the
\* double product lies a rounding error below the payment when monthlyRate
\* was rounded down, and the difference is positive; it is lost again when
\* subtracted from the balance.
PaymentTooLow(pay, rem, a2) ==
    LET d == pay * 2400 - rem * a2
    IN  d < 0 \/ (d = 0 /\ ~RateRoundsDown(a2))

\* while (remainingBalance > 0 && months < 600)
LoopCondOffByOne(rem, m) == rem > 0 /\ m <= CapMonths
LoopCond(rem, m) == rem > 0 /\ m < CapMonths

\* return { months: 600, totalPaid: Infinity, totalInterest: Infinity }
NonConvergentResult == [months |-> 600, totalPaid |-> Infinity, totalInterest |-> Infinity]

\* return { months, totalPaid, totalInterest: totalPaid - balance }
PayoffResult(m, paid, b) == [months |-> m, totalPaid |-> paid, totalInterest |-> paid - b * 100]

NoResult == [months |-> 0, totalPaid |-> 0, totalInterest |-> 0]

CcInit ==
    /\ ccStep = 1
    /\ balance = 5000
    /\ apr2 = 44
    /\ ccPc = "idle"
    /\ strategyIdx = 0
    /\ remainingBalance = 0
    /\ totalPaid = 0
    /\ months = 0
    /\ result = NoResult
    /\ results = <<>>

\* Slider onChange={setBalance}
SetBalance(b) ==
    /\ ccStep = 1
    /\ b # balance
    /\ balance' = b
    /\ UNCHANGED <<ccStep, apr2, ccPc, strategyIdx, remainingBalance, totalPaid,
                   months, result, results>>

\* Slider onChange={setApr}
SetApr(a) ==
    /\ ccStep = 1
    /\ a # apr2
    /\ apr2' = a
    /\ UNCHANGED <<ccStep, balance, ccPc, strategyIdx, remainingBalance, totalPaid,
                   months, result, results>>

\* onNext(balance, apr): setDebtBalance, setDebtApr, setCurrentStep(2); StepCompare renders
CompareStrategies ==
    /\ ccStep = 1
    /\ ccStep' = 2
    /\ ccPc' = "call"
    /\ strategyIdx' = 1
    /\ results' = <<>>
    /\ UNCHANGED <<balance, apr2, remainingBalance, totalPaid, months, result>>

\* calculatePayoff entry: let remainingBalance = balance, totalPaid = 0, months = 0
CalcEnter ==
    /\ ccPc = "call"
    /\ remainingBalance' = balance * 100
    /\ totalPaid' = 0
    /\ months' = 0
    /\ ccPc' = "loop"
    /\ UNCHANGED <<ccStep, balance, apr2, strategyIdx, result, results>>

\* one pass of the while body
CalcLoop ==
    /\ ccPc = "loop"
    /\ LoopCond(remainingBalance, months)
    /\ LET pay == MonthlyPayment(strategyIdx, balance)
       IN  IF PaymentTooLow(pay, remainingBalance, apr2)
           THEN /\ result' = NonConvergentResult
                /\ ccPc' = "ret"
                /\ UNCHANGED <<remainingBalance, totalPaid, months>>
           ELSE /\ remainingBalance' =
                       remainingBalance - PrincipalPayment(pay, remainingBalance, apr2)
                /\ totalPaid' = totalPaid + pay
                /\ months' = months + 1
                /\ UNCHANGED <<result, ccPc>>
    /\ UNCHANGED <<ccStep, balance, apr2, strategyIdx, results>>

\* the while condition fails: the return after the loop
CalcExit ==
    /\ ccPc = "loop"
    /\ ~LoopCond(remainingBalance, months)
    /\ result' = PayoffResult(months, totalPaid, balance)
    /\ ccPc' = "ret"
    /\ UNCHANGED <<ccStep, balance, apr2, strategyIdx, remainingBalance, totalPaid,
                   months, results>>

\* strategies.map: the result is collected and the next strategy is computed
CalcCollect ==
    /\ ccPc = "ret"
    /\ results' = Append(results, result)
    /\ IF strategyIdx < 4
       THEN /\ strategyIdx' = strategyIdx + 1
            /\ ccPc' = "call"
       ELSE /\ strategyIdx' = strategyIdx
            /\ ccPc' = "shown"
    /\ UNCHANGED <<ccStep, balance, apr2, remainingBalance, totalPaid, months, result>>

\* onNext of StepCompare and of StepStrategies: setCurrentStep(3), setCurrentStep(4)
CcAdvance ==
    /\ ccStep \in {2, 3}
    /\ ccPc = "shown"
    /\ ccStep' = ccStep + 1
    /\ UNCHANGED <<balance, apr2, ccPc, strategyIdx, remainingBalance, totalPaid,
                   months, result, results>>

(***************************************************************************)
(* Emergency-fund page (unnamed/part_013)                                  *)
(*                                                                         *)
(* Funds and debts are in 1/10000 dollar, interest rounded down to that    *)
(* unit; stress is in half points.  Time is in half seconds.               *)
(***************************************************************************)
VARIABLES
    efStep,            \* EmergencyFundPage.currentStep
    pageSarah,         \* EmergencyFundPage.sarah (NoCharacter is null)
    pageMike,          \* EmergencyFundPage.mike
    pageEmergencies,   \* EmergencyFundPage.emergencies
    raceMounted,       \* StepRace is mounted (also while its exit animation runs)
    currentMonth,      \* StepRace.currentMonth
    sarah,             \* StepRace.sarah
    mike,              \* StepRace.mike
    emergencies,       \* StepRace.emergencies
    showEmergency,     \* StepRace.showEmergency
    currentEmergency,  \* StepRace.currentEmergency (NoEmergency is null)
    effectPending,     \* the effect on [currentMonth] has not yet run for this value
    timer,             \* the 1500 ms timeout: [month, left] or NoTimer
    emergencyTimer,    \* the 3000 ms timeout: [emergency, left] or NoTimer
    late,              \* half seconds the due timeout has been kept waiting
    handoffs           \* number of onNext(sarah, mike, emergencies) calls so far

efVars == <<efStep, pageSarah, pageMike, pageEmergencies, raceMounted, currentMonth,
            sarah, mike, emergencies, showEmergency, currentEmergency, effectPending,
            timer, emergencyTimer, late, handoffs>>

\* longest delay of a due timeout that is explored, in half seconds
MaxLate == 2
\* most presses of "See Final Results" that are explored
MaxHandoffs == 3

MoneyScale == 10000
RaceMonths == 12
TimerDelay == 3
EmergencyDelay == 6

\* const emergencyEvents: Emergency[]
emergencyEvents ==
    << [month |-> 2,  type |-> "car",       cost |-> 800],
       [month |-> 5,  type |-> "medical",   cost |-> 1200],
       [month |-> 8,  type |-> "home",      cost |-> 600],
       [month |-> 11, type |-> "appliance", cost |-> 900] >>

NoEmergency == [month |-> 0 - 1, type |-> "null", cost |-> 0]
NoCharacter == [emergencyFund |-> 0 - 1, debt |-> 0 - 1, stress |-> 0 - 1]
NoTimer == [month |-> 0 - 1, left |-> 0 - 1]
NoEmergencyTimer == [emergency |-> NoEmergency, left |-> 0 - 1]

\* emergencyEvents.find(e => e.month === currentMonth)
FindEmergencyOffByOne(m) ==
    LET hits == {i \in 1..Len(emergencyEvents) : emergencyEvents[i].month = m + 1}
    IN  IF hits = {} THEN NoEmergency
        ELSE emergencyEvents[CHOOSE i \in hits : \A j \in hits : i <= j]
FindEmergency(m) ==
    LET hits == {i \in 1..Len(emergencyEvents) : emergencyEvents[i].month = m}
    IN  IF hits = {} THEN NoEmergency
        ELSE emergencyEvents[CHOOSE i \in hits : \A j \in hits : i <= j]

\* useState<Character> initial values
SarahInit == [emergencyFund |-> 5000 * MoneyScale, debt |-> 0, stress |-> 4]
MikeInit == [emergencyFund |-> 0, debt |-> 0, stress |-> 10]

\* setSarah(prev => ...) of the emergency timeout
SarahEmergencyWholeCost(prev, cost) ==
    IF prev.emergencyFund >= cost * MoneyScale
    THEN [prev EXCEPT !.emergencyFund = prev.emergencyFund - cost * MoneyScale,
                      !.stress = Min(prev.stress + 2, 20)]
    ELSE [prev EXCEPT !.emergencyFund = 0,
                      !.debt = prev.debt + cost * MoneyScale,
                      !.stress = Min(prev.stress + 6, 20)]
SarahEmergency(prev, cost) ==
    IF prev.emergencyFund >= cost * MoneyScale
    THEN [prev EXCEPT !.emergencyFund = prev.emergencyFund - cost * MoneyScale,
                      !.stress = Min(prev.stress + 2, 20)]
    ELSE [prev EXCEPT !.emergencyFund = 0,
                      !.debt = prev.debt + (cost * MoneyScale - prev.emergencyFund),
                      !.stress = Min(prev.stress + 6, 20)]

\* setMike(prev => ...) of the emergency timeout
MikeEmergency(prev, cost) ==
    [prev EXCEPT !.debt = prev.debt + cost * MoneyScale,
                 !.stress = Min(prev.stress + 6, 20)]

\* setSarah(prev => ...) of a normal month
SarahNormal(prev) ==
    [prev EXCEPT !.emergencyFund = prev.emergencyFund + 400 * MoneyScale,
                 !.debt = Max(0, prev.debt - (prev.debt * 5) \div 100),
                 !.stress = Max(2, prev.stress - 1)]

\* setMike(prev => ...) of a normal month
MikeNormal(prev) ==
    [prev EXCEPT !.debt = prev.debt + (IF prev.debt > 0 THEN (prev.debt * 18) \div 1000 ELSE 0),
                 !.stress = IF prev.debt > 0 THEN Min(prev.stress + 1, 20) ELSE prev.stress]

\* StepResults: Array.from({ length: 13 }, ...)
TimelineLength == 13

\* the first emergencies.forEach of a timeline point: Sarah's fund and debt and
\* Mike's debt after the emergencies of months up to month
RECURSIVE TimelineEmergencies(_, _, _, _)
TimelineEmergencies(acc, ems, i, month) ==
    IF i > Len(ems) \/ acc.sarahFund < 0 THEN acc
    ELSE LET cost == ems[i].cost * MoneyScale
             next == IF ems[i].month <= month
                     THEN IF acc.sarahFund >= cost
                          THEN [acc EXCEPT !.sarahFund = acc.sarahFund - cost,
                                           !.mikeDebt = acc.mikeDebt + cost]
                          ELSE [acc EXCEPT !.sarahDebt = acc.sarahDebt + (cost - acc.sarahFund),
                                           !.sarahFund = 0,
                                           !.mikeDebt = acc.mikeDebt + cost]
                     ELSE acc
         IN  TimelineEmergencies(next, ems, i + 1, month)

\* mikeDebt *= Math.pow(1.018, n)
RECURSIVE TimelineInterest(_, _)
TimelineInterest(debt, n) ==
    IF n = 0 \/ debt < 0 THEN debt
    ELSE TimelineInterest(debt + (debt * 18) \div 1000, n - 1)

\* the second emergencies.forEach of a timeline point
RECURSIVE TimelineMikeDebt(_, _, _, _)
TimelineMikeDebt(debt, ems, i, month) ==
    IF i > Len(ems) \/ debt < 0 THEN debt
    ELSE TimelineMikeDebt(IF ems[i].month < month
                          THEN TimelineInterest(debt, month - ems[i].month)
                          ELSE debt,
                          ems, i + 1, month)

\* emergencies.filter(e => e.month <= month).length
EmergenciesUpTo(ems, month) == Cardinality({i \in 1..Len(ems) : ems[i].month <= month})

\* one element of timelineData
TimelinePoint(month, ems) ==
    LET acc == TimelineEmergencies([sarahFund |-> 5000 * MoneyScale, sarahDebt |-> 0, mikeDebt |-> 0],
                                   ems, 1, month)
        normalMonths == month - EmergenciesUpTo(ems, month)
    IN  [month |-> month,
         sarah |-> acc.sarahFund + normalMonths * 400 * MoneyScale - acc.sarahDebt,
         mike |-> 0 - TimelineMikeDebt(acc.mikeDebt, ems, 1, month)]

\* const timelineData = Array.from({ length: 13 }, (_, month) => ...):
\* timelineData[month] of the page is TimelineData(ems)[month + 1]
TimelineData(ems) == [k \in 1..TimelineLength |-> TimelinePoint(k - 1, ems)]

EfInit ==
    /\ efStep = 1
    /\ pageSarah = NoCharacter
    /\ pageMike = NoCharacter
    /\ pageEmergencies = <<>>
    /\ raceMounted = FALSE
    /\ currentMonth = 0
    /\ sarah = SarahInit
    /\ mike = MikeInit
    /\ emergencies = <<>>
    /\ showEmergency = FALSE
    /\ currentEmergency = NoEmergency
    /\ effectPending = FALSE
    /\ timer = NoTimer
    /\ emergencyTimer = NoEmergencyTimer
    /\ late = 0
    /\ handoffs = 0

\* StepIntro onNext: setCurrentStep(2); StepRace mounts and its effect is scheduled
StartSimulation ==
    /\ efStep = 1
    /\ efStep' = 2
    /\ raceMounted' = TRUE
    /\ effectPending' = TRUE
    /\ UNCHANGED <<pageSarah, pageMike, pageEmergencies, currentMonth, sarah, mike,
                   emergencies, showEmergency, currentEmergency, timer, emergencyTimer,
                   late, handoffs>>

\* the page's onNext={(s, m, e) => ...}
HandOff ==
    /\ pageSarah' = sarah
    /\ pageMike' = mike
    /\ pageEmergencies' = emergencies
    /\ efStep' = 3
    /\ handoffs' = handoffs + 1

\* useEffect body, run after the render in which currentMonth changed
RunEffect ==
    /\ raceMounted
    /\ effectPending
    /\ effectPending' = FALSE
    /\ IF currentMonth >= RaceMonths
       THEN /\ HandOff
            /\ UNCHANGED timer
       ELSE /\ timer' = [month |-> currentMonth, left |-> TimerDelay]
            /\ UNCHANGED <<efStep, pageSarah, pageMike, pageEmergencies, handoffs>>
    /\ UNCHANGED <<raceMounted, currentMonth, sarah, mike, emergencies, showEmergency,
                   currentEmergency, emergencyTimer, late>>

\* half a second passes; a timeout that is due may be kept waiting
Tick ==
    /\ \/ timer # NoTimer
       \/ emergencyTimer # NoEmergencyTimer
    /\ IF timer # NoTimer
       THEN IF timer.left > 0
            THEN /\ timer' = [timer EXCEPT !.left = timer.left - 1]
                 /\ UNCHANGED <<emergencyTimer, late>>
            ELSE /\ late < MaxLate
                 /\ late' = late + 1
                 /\ UNCHANGED <<timer, emergencyTimer>>
       ELSE IF emergencyTimer.left > 0
            THEN /\ emergencyTimer' = [emergencyTimer EXCEPT !.left = emergencyTimer.left - 1]
                 /\ UNCHANGED <<timer, late>>
            ELSE /\ late < MaxLate
                 /\ late' = late + 1
                 /\ UNCHANGED <<timer, emergencyTimer>>
    /\ UNCHANGED <<efStep, pageSarah, pageMike, pageEmergencies, raceMounted, currentMonth,
                   sarah, mike, emergencies, showEmergency, currentEmergency,
                   effectPending, handoffs>>

\* the callback of setTimeout(..., 1500), were it to advance the month of an
\* emergency itself instead of leaving that to the 3000 ms timeout
TimerFiresAdvancesOnEmergency ==
    /\ timer # NoTimer
    /\ timer.left = 0
    /\ timer' = NoTimer
    /\ late' = 0
    /\ LET emergency == FindEmergency(timer.month)
       IN  IF emergency # NoEmergency
           THEN /\ currentEmergency' = emergency
                /\ showEmergency' = TRUE
                /\ emergencies' = Append(emergencies, emergency)
                /\ emergencyTimer' = [emergency |-> emergency, left |-> EmergencyDelay]
                /\ currentMonth' = currentMonth + 1
                /\ effectPending' = TRUE
                /\ UNCHANGED <<sarah, mike>>
           ELSE /\ sarah' = SarahNormal(sarah)
                /\ mike' = MikeNormal(mike)
                /\ currentMonth' = currentMonth + 1
                /\ effectPending' = TRUE
                /\ UNCHANGED <<currentEmergency, showEmergency, emergencies, emergencyTimer>>
    /\ UNCHANGED <<efStep, pageSarah, pageMike, pageEmergencies, raceMounted, handoffs>>

\* the callback of setTimeout(..., 1500)
TimerFires ==
    /\ timer # NoTimer
    /\ timer.left = 0
    /\ timer' = NoTimer
    /\ late' = 0
    /\ LET emergency == FindEmergency(timer.month)
       IN  IF emergency # NoEmergency
           THEN /\ currentEmergency' = emergency
                /\ showEmergency' = TRUE
                /\ emergencies' = Append(emergencies, emergency)
                /\ emergencyTimer' = [emergency |-> emergency, left |-> EmergencyDelay]
                /\ UNCHANGED <<sarah, mike, currentMonth, effectPending>>
           ELSE /\ sarah' = SarahNormal(sarah)
                /\ mike' = MikeNormal(mike)
                /\ currentMonth' = currentMonth + 1
                /\ effectPending' = TRUE
                /\ UNCHANGED <<currentEmergency, showEmergency, emergencies, emergencyTimer>>
    /\ UNCHANGED <<efStep, pageSarah, pageMike, pageEmergencies, raceMounted, handoffs>>

\* the callback of the nested setTimeout(..., 3000)
EmergencyTimerFires ==
    /\ emergencyTimer # NoEmergencyTimer
    /\ emergencyTimer.left = 0
    /\ emergencyTimer' = NoEmergencyTimer
    /\ late' = 0
    /\ sarah' = SarahEmergency(sarah, emergencyTimer.emergency.cost)
    /\ mike' = MikeEmergency(mike, emergencyTimer.emergency.cost)
    /\ showEmergency' = FALSE
    /\ currentMonth' = currentMonth + 1
    /\ effectPending' = TRUE
    /\ UNCHANGED <<efStep, pageSarah, pageMike, pageEmergencies, raceMounted, emergencies,
                   currentEmergency, timer, handoffs>>

\* Button "See Final Results", rendered while currentMonth >= 12
ClickSeeFinalResults ==
    /\ raceMounted
    /\ ~effectPending
    /\ handoffs < MaxHandoffs
    /\ currentMonth >= RaceMonths
    /\ HandOff
    /\ UNCHANGED <<raceMounted, currentMonth, sarah, mike, emergencies, showEmergency,
                   currentEmergency, effectPending, timer, emergencyTimer, late>>

\* AnimatePresence mode="wait": the exit animation of StepRace ends, it unmounts
\* (the effect's cleanup clears the 1500 ms timeout) and StepResults mounts
RaceUnmounts ==
    /\ raceMounted
    /\ efStep = 3
    /\ raceMounted' = FALSE
    /\ timer' = NoTimer
    /\ UNCHANGED <<efStep, pageSarah, pageMike, pageEmergencies, currentMonth, sarah, mike,
                   emergencies, showEmergency, currentEmergency, effectPending,
                   emergencyTimer, late, handoffs>>

\* StepResults onNext: setCurrentStep(4)
EfAdvance ==
    /\ efStep = 3
    /\ ~raceMounted
    /\ efStep' = 4
    /\ UNCHANGED <<pageSarah, pageMike, pageEmergencies, raceMounted, currentMonth, sarah,
                   mike, emergencies, showEmergency, currentEmergency, effectPending,
                   timer, emergencyTimer, late, handoffs>>

(***************************************************************************)
(* The four state updaters of StepRace as functions of any previous state  *)
(***************************************************************************)
VARIABLES
    uSarah,    \* the Character passed to and returned by the setSarah updaters
    uMike,     \* the Character passed to and returned by the setMike updaters
    uApplied,  \* which pair of updaters produced the current values
    uCost,     \* emergency.cost of the emergency applied last, dollars
    uCount     \* number of applications so far

upVars == <<uSarah, uMike, uApplied, uCost, uCount>>

\* number of successive applications that are explored
MaxUpdates == 3

\* emergency funds the actor with a fund may hold when the updaters are applied
FundChoices == {0, 500, 1000, 5000}

UpInit ==
    /\ uSarah \in {[SarahInit EXCEPT !.emergencyFund = f * MoneyScale] : f \in FundChoices}
    /\ uMike = MikeInit
    /\ uApplied = "none"
    /\ uCost = 0
    /\ uCount = 0

\* the two updaters of the emergency timeout (lines 161-184), applied together
ApplyEmergency(e) ==
    /\ uCount < MaxUpdates
    /\ uSarah' = SarahEmergency(uSarah, e.cost)
    /\ uMike' = MikeEmergency(uMike, e.cost)
    /\ uApplied' = "emergency"
    /\ uCost' = e.cost
    /\ uCount' = uCount + 1

\* the two updaters of a normal month (lines 191-202), applied together
ApplyNormal ==
    /\ uCount < MaxUpdates
    /\ uSarah' = SarahNormal(uSarah)
    /\ uMike' = MikeNormal(uMike)
    /\ uApplied' = "normal"
    /\ uCost' = uCost
    /\ uCount' = uCount + 1

EventSet == {emergencyEvents[i] : i \in 1..Len(emergencyEvents)}

(***************************************************************************)
(* Budget-builder page (frontend/.../budget-builder/page.tsx)              *)
(*                                                                         *)
(* Amounts are whole dollars.  A percentage or a bucket score is the       *)
(* fraction  n / income  and is kept as its numerator n.                   *)
(***************************************************************************)
VARIABLES
    bbStep,     \* BudgetBuilderPage.currentStep
    siIncome,   \* StepIncome.income
    bbIncome,   \* BudgetBuilderPage.income
    amounts,    \* the twelve useState amounts of StepAllocate, in source order
    budget      \* BudgetBuilderPage.budget

bbVars == <<bbStep, siIncome, bbIncome, amounts, budget>>

\* slider positions explored on either side of the initial amount
MaxSliderSteps == 1
IncomeChoices == {4000, 5100}
\* the sliders that are moved: Housing, Dining Out, Emergency Fund, Retirement, Goals
Movable == {1, 6, 10, 11, 12}

\* useState(income * pct), Slider max={income * maxPct} step={step}; percents
Categories ==
    << [category |-> "Housing",        type |-> "needs",   pct |-> 30, maxPct |-> 50, step |-> 50],
       [category |-> "Utilities",      type |-> "needs",   pct |-> 5,  maxPct |-> 20, step |-> 25],
       [category |-> "Groceries",      type |-> "needs",   pct |-> 8,  maxPct |-> 30, step |-> 25],
       [category |-> "Transportation", type |-> "needs",   pct |-> 5,  maxPct |-> 20, step |-> 25],
       [category |-> "Insurance",      type |-> "needs",   pct |-> 2,  maxPct |-> 15, step |-> 25],
       [category |-> "Dining Out",     type |-> "wants",   pct |-> 10, maxPct |-> 30, step |-> 25],
       [category |-> "Entertainment",  type |-> "wants",   pct |-> 8,  maxPct |-> 20, step |-> 25],
       [category |-> "Shopping",       type |-> "wants",   pct |-> 7,  maxPct |-> 20, step |-> 25],
       [category |-> "Subscriptions",  type |-> "wants",   pct |-> 5,  maxPct |-> 15, step |-> 10],
       [category |-> "Emergency Fund", type |-> "savings", pct |-> 8,  maxPct |-> 30, step |-> 25],
       [category |-> "Retirement",     type |-> "savings", pct |-> 10, maxPct |-> 30, step |-> 25],
       [category |-> "Goals",          type |-> "savings", pct |-> 2,  maxPct |-> 20, step |-> 25] >>

\* useState(income * pct)
InitialAmount(i, inc) == (inc * Categories[i].pct) \div 100

\* the values a range input of min 0, the given max and step can deliver
SliderPositions(i, inc) ==
    LET st == Categories[i].step
        mx == (inc * Categories[i].maxPct) \div 100
        near == (InitialAmount(i, inc) \div st) * st
    IN  {v \in {0, (mx \div st) * st} \cup {near + k * st : k \in (0 - MaxSliderSteps)..MaxSliderSteps} :
            v >= 0 /\ v <= mx}

RECURSIVE SumAmounts(_)
\* items.reduce((sum, item) => sum + item.amount, 0)
SumAmounts(items) ==
    IF items = <<>> THEN 0 ELSE Head(items).amount + SumAmounts(Tail(items))

\* budget.filter(item => item.type === t)
FilterType(items, t) == SelectSeq(items, LAMBDA item : item.type = t)

\* totalNeeds, totalWants, totalSavings of StepVisualize
TotalOf(items, t) == SumAmounts(FilterType(items, t))

\* handleSubmit: const budget: BudgetItem[] = [...]
BudgetItems(am) ==
    [i \in 1..Len(Categories) |->
        [category |-> Categories[i].category, amount |-> am[i], type |-> Categories[i].type]]

\* totalAllocated of StepAllocate
TotalAllocated(am) == SumAmounts(BudgetItems(am))

\* const isBalanced = Math.abs(totalAllocated - income) < 10
IsBalanced(am, inc) == Abs(TotalAllocated(am) - inc) < 10

\* Math.max(0, 100 - Math.abs(percent - target) * penalty), times income
BucketScore(total, inc, target, penalty) ==
    Max(0, 100 * inc - Abs(100 * total - target * inc) * penalty)

NeedsScore(items, inc) == BucketScore(TotalOf(items, "needs"), inc, 50, 2)
WantsScore(items, inc) == BucketScore(TotalOf(items, "wants"), inc, 30, 3)
SavingsScoreAsWants(items, inc) == BucketScore(TotalOf(items, "savings"), inc, 20, 3)
SavingsScore(items, inc) == BucketScore(TotalOf(items, "savings"), inc, 20, 4)

\* Math.round(x) for x = n / d >= 0: the nearest integer, halves upwards
RoundRatio(n, d) == (2 * n + d) \div (2 * d)

\* const overallScore = Math.round((needsScore + wantsScore + savingsScore) / 3)
OverallScore(items, inc) ==
    RoundRatio(NeedsScore(items, inc) + WantsScore(items, inc) + SavingsScore(items, inc),
               3 * inc)

NoAmounts == [i \in 1..Len(Categories) |-> 0]

BbInit ==
    /\ bbStep = 1
    /\ siIncome = 4000
    /\ bbIncome = 0
    /\ amounts = NoAmounts
    /\ budget = <<>>

\* StepIncome Slider onChange={setIncome}
SetIncome(v) ==
    /\ bbStep = 1
    /\ v # siIncome
    /\ siIncome' = v
    /\ UNCHANGED <<bbStep, bbIncome, amounts, budget>>

\* onNext(income): setIncome(inc), setCurrentStep(2); StepAllocate mounts
StartBuilding ==
    /\ bbStep = 1
    /\ bbIncome' = siIncome
    /\ bbStep' = 2
    /\ amounts' = [i \in 1..Len(Categories) |-> InitialAmount(i, siIncome)]
    /\ UNCHANGED <<siIncome, budget>>

\* a StepAllocate Slider onChange
SetAmount(i, v) ==
    /\ bbStep = 2
    /\ v # amounts[i]
    /\ amounts' = [amounts EXCEPT ![i] = v]
    /\ UNCHANGED <<bbStep, siIncome, bbIncome, budget>>

\* handleSubmit behind a Button that is never disabled
ReviewBudgetUnbalanced ==
    /\ bbStep = 2
    /\ budget' = BudgetItems(amounts)
    /\ bbStep' = 3
    /\ UNCHANGED <<siIncome, bbIncome, amounts>>

\* Button onClick={handleSubmit} disabled={!isBalanced}; setBudget(bgt), setCurrentStep(3)
ReviewBudget ==
    /\ bbStep = 2
    /\ IsBalanced(amounts, bbIncome)
    /\ budget' = BudgetItems(amounts)
    /\ bbStep' = 3
    /\ UNCHANGED <<siIncome, bbIncome, amounts>>

\* StepVisualize onNext: setCurrentStep(4)
BbAdvance ==
    /\ bbStep = 3
    /\ bbStep' = 4
    /\ UNCHANGED <<siIncome, bbIncome, amounts, budget>>

(***************************************************************************)
(* Coffee-shop page (unnamed/part_012)                                     *)
(***************************************************************************)
VARIABLES
    csStep,           \* CoffeeShopEffectPage.step
    sgGuess,          \* StepGuess.guess, dollars
    userGuess,        \* CoffeeShopEffectPage.userGuess
    loading,          \* CoffeeShopEffectPage.loading
    completePc,       \* position inside the async handleComplete
    completeScore,    \* handleComplete local score
    completePerfect,  \* handleComplete local isPerfect
    alertShown,       \* which alert(...) handleComplete has raised
    redirected,       \* window.location.href = '/dashboard' was assigned
    compoundYears     \* StepCompound.years

csVars == <<csStep, sgGuess, userGuess, loading, completePc, completeScore,
            completePerfect, alertShown, redirected, compoundYears>>

\* slider positions of the guess that are explored: GuessMin + 50 k, k in 0..MaxGuessSteps
MaxGuessSteps == 38

GuessMin == 100
GuessMax == 2000
GuessStep == 50
GuessChoices == {g \in {GuessMin + GuessStep * k : k \in 0..MaxGuessSteps} : g <= GuessMax}

\* const actualCost = 5.50 * 5 * 52
ActualCost == (55 * 5 * 52) \div 10

\* the difference without Math.abs
DifferenceSigned(guess) == ActualCost - guess

\* const difference = Math.abs(actualCost - userGuess)
Difference(guess) == Abs(ActualCost - guess)

\* const accuracyPercent = Math.max(0, 100 - (difference / actualCost * 100)),
\* as the numerator of a fraction over actualCost
AccuracyPercent(guess) == Max(0, 100 * ActualCost - 100 * Difference(guess))

\* const score = Math.round(accuracyPercent)
Score(guess) == RoundRatio(AccuracyPercent(guess), ActualCost)

\* const [years, setYears] = useState(10)
YearsInitial == 10

\* <Slider min={1} max={30} step={1} value={years} onChange={setYears} />
YearsMin == 1
YearsMax == 30
YearsChoices == YearsMin..YearsMax

\* an IEEE-754 double as far as the page needs it: a number (value in cents), or
\* the NaN that 0 / 0 produces, or the infinity of a non-zero number over 0
Num(v) == [kind |-> "num", value |-> v]
NaN == [kind |-> "nan", value |-> 0]
Inf == [kind |-> "inf", value |-> 0]

\* one in the fixed point of the growth factor Math.pow(1 + rate, years)
FactorScale == 1000000

\* Math.pow(1 + rate, years), rate in percent, scaled by FactorScale
RECURSIVE GrowthFactor(_, _, _)
GrowthFactor(f, rate, n) ==
    IF n = 0 \/ f < 0 THEN f
    ELSE GrowthFactor((f * (100 + rate)) \div 100, rate, n - 1)

\* n / rate of two doubles, n scaled by FactorScale and rate in percent: the
\* quotient scaled by FactorScale
FloatDivide(n, rate) ==
    IF rate = 0 THEN (IF n = 0 THEN NaN ELSE Inf)
    ELSE Num((n * 100) \div rate)

\* pmt * q, pmt in dollars, q scaled by FactorScale: cents
FloatTimes(pmt, q) ==
    IF q.kind = "num" THEN Num(((q.value \div 1000) * pmt) \div 10)
    ELSE IF pmt = 0 THEN NaN ELSE q

\* function calculateFutureValue(pmt, rate, years) {
\*   if (years === 0) return 0
\*   return pmt * (((Math.pow(1 + rate, years) - 1) / rate)) }
\* rate in percent
calculateFutureValue(pmt, rate, n) ==
    IF n = 0 THEN Num(0)
    ELSE FloatTimes(pmt, FloatDivide(GrowthFactor(FactorScale, rate, n) - FactorScale, rate))

\* the 8% return of data's calculateFutureValue(annualCost, 0.08, i)
ReturnRate == 8

\* const data = Array.from({ length: years + 1 }, (_, i) => ({ year: i, spending, invested })):
\* data[i] of the page is CompoundData(y)[i + 1]
CompoundData(y) ==
    [k \in 1..(y + 1) |->
        [year |-> k - 1,
         spending |-> ActualCost * (k - 1) * 100,
         invested |-> calculateFutureValue(ActualCost, ReturnRate, k - 1)]]

\* const ifInvested = data[years].invested
IfInvested(y) == CompoundData(y)[y + 1].invested

CsInit ==
    /\ csStep = 1
    /\ sgGuess = 500
    /\ userGuess = 0
    /\ loading = FALSE
    /\ completePc = "idle"
    /\ completeScore = 0
    /\ completePerfect = FALSE
    /\ alertShown = "none"
    /\ redirected = FALSE
    /\ compoundYears = YearsInitial

\* StepGuess Slider onChange={setGuess}
SetGuess(g) ==
    /\ csStep = 1
    /\ g # sgGuess
    /\ sgGuess' = g
    /\ UNCHANGED <<csStep, userGuess, loading, completePc, completeScore,
                   completePerfect, alertShown, redirected, compoundYears>>

\* StepGuess onNext: setUserGuess(guess), setStep(2)
LockInGuess ==
    /\ csStep = 1
    /\ userGuess' = sgGuess
    /\ csStep' = 2
    /\ UNCHANGED <<sgGuess, loading, completePc, completeScore, completePerfect,
                   alertShown, redirected, compoundYears>>

\* StepReality onNext: setStep(3); StepCompound onNext: setStep(4). StepCompound
\* is mounted by the first and unmounted by the second: useState(10)
CsAdvance ==
    /\ csStep \in {2, 3}
    /\ csStep' = csStep + 1
    /\ compoundYears' = YearsInitial
    /\ UNCHANGED <<sgGuess, userGuess, loading, completePc, completeScore,
                   completePerfect, alertShown, redirected>>

\* StepCompound Slider onChange={setYears}
SetYears(y) ==
    /\ csStep = 3
    /\ y # compoundYears
    /\ compoundYears' = y
    /\ UNCHANGED <<csStep, sgGuess, userGuess, loading, completePc, completeScore,
                   completePerfect, alertShown, redirected>>

\* handleComplete up to its await fetch(...)
HandleComplete ==
    /\ csStep = 4
    /\ completePc = "idle"
    /\ loading' = TRUE
    /\ completeScore' = Score(userGuess)
    /\ completePerfect' = (Score(userGuess) >= 95)
    /\ completePc' = "fetch"
    /\ UNCHANGED <<csStep, sgGuess, userGuess, alertShown, redirected, compoundYears>>

\* the catch block without the finally block
CatchWithoutFinally ==
    /\ alertShown' = "fallback"
    /\ redirected' = TRUE
    /\ loading' = loading
    /\ completePc' = "done"

\* catch (error) { alert('Simulation complete! +100 XP earned'); redirect } finally { setLoading(false) }
CatchAndFinally ==
    /\ alertShown' = "fallback"
    /\ redirected' = TRUE
    /\ loading' = FALSE
    /\ completePc' = "done"

\* fetch resolves: response.ok continues to response.json(), otherwise throw
FetchResolves(ok) ==
    /\ completePc = "fetch"
    /\ IF ok
       THEN /\ completePc' = "json"
            /\ UNCHANGED <<loading, alertShown, redirected>>
       ELSE CatchAndFinally
    /\ UNCHANGED <<csStep, sgGuess, userGuess, completeScore, completePerfect, compoundYears>>

\* fetch rejects (network error)
FetchRejects ==
    /\ completePc = "fetch"
    /\ CatchAndFinally
    /\ UNCHANGED <<csStep, sgGuess, userGuess, completeScore, completePerfect, compoundYears>>

\* response.json() resolves: a body with xp_earned, badges_earned and new_unlocks
\* builds the message; any other body throws a TypeError on the first missing field
JsonResolves(wellFormed) ==
    /\ completePc = "json"
    /\ IF wellFormed
       THEN /\ alertShown' = "xp"
            /\ redirected' = TRUE
            /\ loading' = FALSE
            /\ completePc' = "done"
       ELSE CatchAndFinally
    /\ UNCHANGED <<csStep, sgGuess, userGuess, completeScore, completePerfect, compoundYears>>

\* response.json() rejects (the body is not JSON)
JsonRejects ==
    /\ completePc = "json"
    /\ CatchAndFinally
    /\ UNCHANGED <<csStep, sgGuess, userGuess, completeScore, completePerfect, compoundYears>>

(***************************************************************************)
(* calculateFutureValue of the coffee-shop page as a function of any       *)
(* payment, rate and number of periods                                     *)
(***************************************************************************)
VARIABLES
    fvPmt,      \* argument pmt, dollars
    fvRate,     \* argument rate, percent
    fvYears,    \* argument years
    fvResult    \* the value returned, NotCalled before the call

fvVars == <<fvPmt, fvRate, fvYears, fvResult>>

\* largest number of periods the function is applied to
MaxPeriods == 30

PmtChoices == {0, 100, ActualCost}
RateChoices == {0, ReturnRate}
PeriodChoices == 0..MaxPeriods

NotCalled == [kind |-> "none", value |-> 0]

\* the call of the page: calculateFutureValue(annualCost, 0.08, years), not yet made
FvIdle ==
    /\ fvPmt = ActualCost
    /\ fvRate = ReturnRate
    /\ fvYears = YearsInitial
    /\ fvResult = NotCalled

FvInit ==
    /\ fvPmt \in PmtChoices
    /\ fvRate \in RateChoices
    /\ fvYears \in PeriodChoices
    /\ fvResult = NotCalled

\* the call calculateFutureValue(pmt, rate, years)
CallFutureValue ==
    /\ fvResult = NotCalled
    /\ fvResult' = calculateFutureValue(fvPmt, fvRate, fvYears)
    /\ UNCHANGED <<fvPmt, fvRate, fvYears>>

(***************************************************************************)
(* Paycheck-game page (frontend/.../paycheck-game/page.tsx)                *)
(*                                                                         *)
(* Slider values are whole dollars; the amounts of a StrategyResult are in *)
(* cents.                                                                  *)
(***************************************************************************)
VARIABLES
    pgStep,            \* PaycheckGamePage.currentStep
    suIncome,          \* StepSetup.income
    suExpenses,        \* StepSetup rent, utilities, groceries, insurance, transportation, debt
    pgIncome,          \* PaycheckGamePage.income
    pgExpenses,        \* PaycheckGamePage.expenses
    selectedStrategy,  \* StepStrategy.selectedStrategy ("null" when none)
    pgStrategy         \* PaycheckGamePage.strategy

pgVars == <<pgStep, suIncome, suExpenses, pgIncome, pgExpenses, selectedStrategy, pgStrategy>>

\* slider values that are explored
SetupIncomeChoices == {2000, 4000, 10000}
SetupExpenseChoices ==
    [rent |-> {500, 1200, 3000}, utilities |-> {200}, groceries |-> {400, 800},
     insurance |-> {300}, transportation |-> {200}, debt |-> {0, 300, 1000}]

Strategies == {"spend_first", "bills_first", "save_first"}
ExpenseNames == {"rent", "utilities", "groceries", "insurance", "transportation", "debt"}

\* const totalExpenses = rent + utilities + groceries + insurance + transportation + debt
TotalExpenses(e) ==
    e.rent + e.utilities + e.groceries + e.insurance + e.transportation + e.debt

\* simulateStrategy with spend_first spending exactly the remaining cash
simulateStrategyNoOverspend(strat, inc, exp) ==
    LET remaining == inc - exp
        savingsTarget == inc * 10
    IN  IF strat = "spend_first"
        THEN [strategy |-> strat, amount_saved |-> 0, bills_paid_on_time |-> FALSE,
              discretionary_spent |-> remaining * 100, late_fees |-> 7000,
              stress_level |-> "high",
              final_balance |-> inc * 100 - exp * 100 - remaining * 100 - 7000]
        ELSE IF strat = "bills_first"
        THEN [strategy |-> strat, amount_saved |-> remaining * 5, bills_paid_on_time |-> TRUE,
              discretionary_spent |-> remaining * 95, late_fees |-> 0,
              stress_level |-> "medium",
              final_balance |-> inc * 100 - exp * 100 - remaining * 95]
        ELSE [strategy |-> strat, amount_saved |-> savingsTarget, bills_paid_on_time |-> TRUE,
              discretionary_spent |-> remaining * 100 - savingsTarget, late_fees |-> 0,
              stress_level |-> "low",
              final_balance |-> inc * 100 - exp * 100 - (remaining * 100 - savingsTarget)]

\* const simulateStrategy = (strat: Strategy): StrategyResult
simulateStrategy(strat, inc, exp) ==
    LET remaining == inc - exp
        savingsTarget == inc * 10
    IN  IF strat = "spend_first"
        THEN [strategy |-> strat, amount_saved |-> 0, bills_paid_on_time |-> FALSE,
              discretionary_spent |-> remaining * 130, late_fees |-> 7000,
              stress_level |-> "high",
              final_balance |-> inc * 100 - exp * 100 - remaining * 130 - 7000]
        ELSE IF strat = "bills_first"
        THEN [strategy |-> strat, amount_saved |-> remaining * 5, bills_paid_on_time |-> TRUE,
              discretionary_spent |-> remaining * 95, late_fees |-> 0,
              stress_level |-> "medium",
              final_balance |-> inc * 100 - exp * 100 - remaining * 95]
        ELSE [strategy |-> strat, amount_saved |-> savingsTarget, bills_paid_on_time |-> TRUE,
              discretionary_spent |-> remaining * 100 - savingsTarget, late_fees |-> 0,
              stress_level |-> "low",
              final_balance |-> inc * 100 - exp * 100 - (remaining * 100 - savingsTarget)]

\* const results = { spend_first: ..., bills_first: ..., save_first: ... } of StepResults
StrategyResults == [s \in Strategies |-> simulateStrategy(s, pgIncome, pgExpenses)]

PgInit ==
    /\ pgStep = 1
    /\ suIncome = 4000
    /\ suExpenses = [rent |-> 1200, utilities |-> 200, groceries |-> 400,
                     insurance |-> 300, transportation |-> 200, debt |-> 300]
    /\ pgIncome = 0
    /\ pgExpenses = 0
    /\ selectedStrategy = "null"
    /\ pgStrategy = "save_first"

\* StepSetup Slider onChange={setIncome}
SetSetupIncome(v) ==
    /\ pgStep = 1
    /\ v # suIncome
    /\ suIncome' = v
    /\ UNCHANGED <<pgStep, suExpenses, pgIncome, pgExpenses, selectedStrategy, pgStrategy>>

\* StepSetup Slider onChange of one of the six expenses
SetSetupExpense(n, v) ==
    /\ pgStep = 1
    /\ v # suExpenses[n]
    /\ suExpenses' = [suExpenses EXCEPT ![n] = v]
    /\ UNCHANGED <<pgStep, suIncome, pgIncome, pgExpenses, selectedStrategy, pgStrategy>>

\* Button disabled={remaining <= 0} onClick={() => onNext(income, totalExpenses)}
ChooseYourStrategy ==
    /\ pgStep = 1
    /\ ~(suIncome - TotalExpenses(suExpenses) <= 0)
    /\ pgIncome' = suIncome
    /\ pgExpenses' = TotalExpenses(suExpenses)
    /\ pgStep' = 2
    /\ UNCHANGED <<suIncome, suExpenses, selectedStrategy, pgStrategy>>

\* Card onClick={() => setSelectedStrategy(strategy.id)}
SelectStrategy(st) ==
    /\ pgStep = 2
    /\ st # selectedStrategy
    /\ selectedStrategy' = st
    /\ UNCHANGED <<pgStep, suIncome, suExpenses, pgIncome, pgExpenses, pgStrategy>>

\* Button disabled={!selectedStrategy}; onNext: setStrategy(strat), setCurrentStep(3)
SeeWhatHappens ==
    /\ pgStep = 2
    /\ selectedStrategy # "null"
    /\ pgStrategy' = selectedStrategy
    /\ pgStep' = 3
    /\ UNCHANGED <<suIncome, suExpenses, pgIncome, pgExpenses, selectedStrategy>>

\* a StepResults whose button goes back to the strategy step
PgAdvanceGoesBack ==
    /\ pgStep = 3
    /\ pgStep' = 2
    /\ UNCHANGED <<suIncome, suExpenses, pgIncome, pgExpenses, selectedStrategy, pgStrategy>>

\* StepResults onNext: setCurrentStep(4)
PgAdvance ==
    /\ pgStep = 3
    /\ pgStep' = 4
    /\ UNCHANGED <<suIncome, suExpenses, pgIncome, pgExpenses, selectedStrategy, pgStrategy>>

(***************************************************************************)
(* Compound-interest page (unnamed/part_014)                               *)
(*                                                                         *)
(* Balances are whole cents.  Math.pow(1 + r, n) of the annuity formula    *)
(* pmt * ((1 + r)^n - 1) / r is computed as the n-fold deposit-and-grow    *)
(* recurrence it closes, each step rounded down to a cent; the result is   *)
(* within ten dollars of the double the page computes.                     *)
(***************************************************************************)
VARIABLES
    ciStep,          \* CompoundInterestPage.step
    currentAge,      \* StepRace.currentAge
    isPlaying,       \* StepRace.isPlaying
    calcAge,         \* StepCalculator.age
    monthlyAmount,   \* StepCalculator.monthlyAmount
    yearsInvesting,  \* StepCalculator.yearsInvesting
    ciCompleted      \* handleComplete has alerted and redirected

ciVars == <<ciStep, currentAge, isPlaying, calcAge, monthlyAmount, yearsInvesting, ciCompleted>>

\* slider values of the personal calculator that are explored
CalcAgeChoices == {18, 25, 60}
MonthlyAmountChoices == {50, 300, 1000}
YearsInvestingChoices == {1, 5, 10, 40}

RaceStartAge == 25
RetirementAge == 65

\* one month of the annuity: the balance earns returnRate / 12 = 1/150 and the deposit is added
RECURSIVE MonthsOfDeposits(_, _, _)
MonthsOfDeposits(b, pmtCents, n) ==
    IF n = 0 \/ b < 0 THEN b ELSE MonthsOfDeposits(b + b \div 150 + pmtCents, pmtCents, n - 1)

\* monthlyAmount * ((Math.pow(1 + monthlyRate, months) - 1) / monthlyRate), months = 12 * years
RECURSIVE FutureValueOfAnnuity(_, _, _)
FutureValueOfAnnuity(b, pmtCents, years) ==
    IF years = 0 \/ b < 0 THEN b
    ELSE FutureValueOfAnnuity(MonthsOfDeposits(b, pmtCents, 12), pmtCents, years - 1)

\* balance * Math.pow(1 + returnRate, additionalYears), returnRate = 0.08
RECURSIVE GrowYears(_, _)
GrowYears(b, years) ==
    IF years = 0 \/ b < 0 THEN b
    ELSE GrowYears(b + (b \div 100) * 8 + ((b % 100) * 8) \div 100, years - 1)

\* calculateValue without the growth after the contributions stop
calculateValueNoGrowth(startAge, endAge, amount, age) ==
    IF age < startAge \/ age > endAge
    THEN LET yearsIn == Max(0, Min(endAge, age) - startAge)
         IN  IF yearsIn = 0
             THEN [balance |-> 0, invested |-> 0]
             ELSE [balance |-> FutureValueOfAnnuity(0, amount * 100, yearsIn),
                   invested |-> amount * 100 * yearsIn * 12]
    ELSE [balance |-> FutureValueOfAnnuity(0, amount * 100, age - startAge),
          invested |-> amount * 100 * (age - startAge) * 12]

\* const calculateValue = (startAge, endAge, monthlyAmount, currentAge) => { balance, invested }
calculateValue(startAge, endAge, amount, age) ==
    IF age < startAge \/ age > endAge
    THEN LET yearsIn == Max(0, Min(endAge, age) - startAge)
             additionalYears == age - endAge
             annuity == FutureValueOfAnnuity(0, amount * 100, yearsIn)
         IN  IF yearsIn = 0
             THEN [balance |-> 0, invested |-> 0]
             ELSE [balance |-> IF additionalYears > 0
                               THEN GrowYears(annuity, additionalYears)
                               ELSE annuity,
                   invested |-> amount * 100 * yearsIn * 12]
    ELSE [balance |-> FutureValueOfAnnuity(0, amount * 100, age - startAge),
          invested |-> amount * 100 * (age - startAge) * 12]

\* const emma / steven / larry = calculateValue(...) of StepRace
RaceProfiles == {"Emma", "Steven", "Larry"}
RaceValue(name, age) ==
    IF name = "Emma" THEN calculateValue(25, 35, 300, age)
    ELSE IF name = "Steven" THEN calculateValue(35, 65, 300, age)
    ELSE calculateValue(45, 65, 500, age)

\* the emma / steven / larry objects of StepResults, finalValue in dollars
ResultsProfile ==
    [Emma   |-> [totalInvested |-> 300 * 12 * 10, finalValue |-> 518000, years |-> 10],
     Steven |-> [totalInvested |-> 300 * 12 * 30, finalValue |-> 446000, years |-> 30],
     Larry  |-> [totalInvested |-> 500 * 12 * 20, finalValue |-> 274000, years |-> 20]]

\* the podium of StepResults: 1st place, 2nd place, 3rd place
Podium == <<"Emma", "Steven", "Larry">>

\* StepCalculator: totalInvested = monthlyAmount * months, and finalValue, the annuity
\* of months = yearsInvesting * 12 grown for additionalYears = 65 - (age + yearsInvesting)
\* years if that is positive; cents
CalculatorHeadline(age, amount, years) ==
    LET annuity == FutureValueOfAnnuity(0, amount * 100, years)
        additionalYears == RetirementAge - (age + years)
    IN  [totalInvested |-> amount * 100 * years * 12,
         finalValue |-> IF additionalYears > 0 THEN GrowYears(annuity, additionalYears)
                        ELSE annuity]

\* one pass of the chartData loop: the row of age + i
ChartRow(age, amount, years, i) ==
    LET contributionYears == Min(i, years)
        annuity == FutureValueOfAnnuity(0, amount * 100, contributionYears)
        growthYears == Max(0, i - years)
    IN  [age |-> age + i,
         balance |-> IF contributionYears > 0
                     THEN (IF growthYears > 0 THEN GrowYears(annuity, growthYears) ELSE annuity)
                     ELSE 0,
         invested |-> amount * 100 * contributionYears * 12]

\* for (let i = 0; i <= retirementAge - age; i++) chartData.push(...):
\* chartData[i] of the page is ChartData(...)[i + 1]
ChartData(age, amount, years) ==
    [k \in 1..(RetirementAge - age + 1) |-> ChartRow(age, amount, years, k - 1)]

CiInit ==
    /\ ciStep = 1
    /\ currentAge = 25
    /\ isPlaying = FALSE
    /\ calcAge = 25
    /\ monthlyAmount = 300
    /\ yearsInvesting = 10
    /\ ciCompleted = FALSE

\* StepIntro onNext: setStep(2); StepRace mounts with its initial state.  The
\* "auto-play" callback is passed to useState as an initialiser: it runs once
\* at mount, with isPlaying false and currentAge 25, and does nothing.
StartRace ==
    /\ ciStep = 1
    /\ ciStep' = 2
    /\ currentAge' = 25
    /\ isPlaying' = FALSE
    /\ UNCHANGED <<calcAge, monthlyAmount, yearsInvesting, ciCompleted>>

\* const [isPlaying, setIsPlaying] = useState(false): the value at mount
IsPlayingAtMount == FALSE

\* the 200 ms timeout of the "auto-play" callback: setCurrentAge(currentAge + 1).
\* The callback is a useState initialiser, so React runs it once, at mount: it
\* sets the timeout only if StepRace mounts playing below 65, and the closure
\* holds the age of that render.
AutoPlayTimerFires ==
    /\ ciStep = 2
    /\ IsPlayingAtMount
    /\ RaceStartAge < RetirementAge
    /\ currentAge = RaceStartAge
    /\ currentAge' = RaceStartAge + 1
    /\ UNCHANGED <<ciStep, isPlaying, calcAge, monthlyAmount, yearsInvesting, ciCompleted>>

\* Slider onChange={setCurrentAge}
SetCurrentAge(a) ==
    /\ ciStep = 2
    /\ a # currentAge
    /\ currentAge' = a
    /\ UNCHANGED <<ciStep, isPlaying, calcAge, monthlyAmount, yearsInvesting, ciCompleted>>

\* Reset: setCurrentAge(25), setIsPlaying(false)
ResetRace ==
    /\ ciStep = 2
    /\ currentAge' = 25
    /\ isPlaying' = FALSE
    /\ UNCHANGED <<ciStep, calcAge, monthlyAmount, yearsInvesting, ciCompleted>>

\* Play Animation / Pause: setIsPlaying(!isPlaying)
TogglePlay ==
    /\ ciStep = 2
    /\ isPlaying' = ~isPlaying
    /\ UNCHANGED <<ciStep, currentAge, calcAge, monthlyAmount, yearsInvesting, ciCompleted>>

\* Skip to End: setCurrentAge(65)
SkipToEnd ==
    /\ ciStep = 2
    /\ currentAge' = 65
    /\ UNCHANGED <<ciStep, isPlaying, calcAge, monthlyAmount, yearsInvesting, ciCompleted>>

\* {currentAge >= 65 && <Button onClick={onNext}>See Final Results}: setStep(3)
SeeFinalResults ==
    /\ ciStep = 2
    /\ currentAge >= 65
    /\ ciStep' = 3
    /\ UNCHANGED <<currentAge, isPlaying, calcAge, monthlyAmount, yearsInvesting, ciCompleted>>

\* StepResults onNext: setStep(4); StepCalculator mounts with its initial state
OpenCalculator ==
    /\ ciStep = 3
    /\ ciStep' = 4
    /\ calcAge' = 25
    /\ monthlyAmount' = 300
    /\ yearsInvesting' = 10
    /\ UNCHANGED <<currentAge, isPlaying, ciCompleted>>

\* StepCalculator sliders: age 18..60, monthly amount 50..1000, years 1..min(40, 65 - age)
SetCalcAge(a) ==
    /\ ciStep = 4 /\ ~ciCompleted
    /\ a # calcAge
    /\ calcAge' = a
    /\ UNCHANGED <<ciStep, currentAge, isPlaying, monthlyAmount, yearsInvesting, ciCompleted>>

SetMonthlyAmount(m) ==
    /\ ciStep = 4 /\ ~ciCompleted
    /\ m # monthlyAmount
    /\ monthlyAmount' = m
    /\ UNCHANGED <<ciStep, currentAge, isPlaying, calcAge, yearsInvesting, ciCompleted>>

SetYearsInvesting(y) ==
    /\ ciStep = 4 /\ ~ciCompleted
    /\ y # yearsInvesting
    /\ y <= Min(40, 65 - calcAge)
    /\ yearsInvesting' = y
    /\ UNCHANGED <<ciStep, currentAge, isPlaying, calcAge, monthlyAmount, ciCompleted>>

\* handleComplete: alert('Simulation complete! +500 XP earned'), redirect to the dashboard
CiHandleComplete ==
    /\ ciStep = 4 /\ ~ciCompleted
    /\ ciCompleted' = TRUE
    /\ UNCHANGED <<ciStep, currentAge, isPlaying, calcAge, monthlyAmount, yearsInvesting>>

(***************************************************************************)
(* Progression: the level table and the mock user of the progress page     *)
(* (frontend/.../progress/page.tsx) and the completion engine.  The engine *)
(* runs on the server; its rules are those of the specification, section   *)
(* 4.4.                                                                    *)
(***************************************************************************)
VARIABLES
    total_xp,              \* ProgressionState.total_xp
    current_level,         \* level reported with the state
    unlocked_badge_ids,    \* ProgressionState.unlocked_badge_ids
    current_streak_days,   \* ProgressionState.current_streak_days
    longest_streak_days,   \* ProgressionState.longest_streak_days
    last_activity_date,    \* ProgressionState.last_activity_date, 0 when there is none
    today,                 \* the date of the next completion event
    events,                \* events emitted by the last completion
    completion,            \* the CompletionEvent of the last call
    completions,           \* number of calls of the engine
    progressShown          \* the progress page is being shown

prVars == <<total_xp, current_level, unlocked_badge_ids, current_streak_days,
            longest_streak_days, last_activity_date, today, events, completion,
            completions, progressShown>>

\* bounds of the exploration
MaxCompletions == 2
MaxDay == 3

\* stored states the engine is handed
SnapshotXP == {900, 2400, 4900, 9800, 19500}
SnapshotStreak == {2, 6, 29}
BaseXPChoices == {100, 150}
RawScoreChoices == {60, 100}
InvalidScoreChoices == {101}

\* const levels of progress/page.tsx
levels ==
    <<[level |-> 1, minXP |-> 0,     maxXP |-> 1000],
      [level |-> 2, minXP |-> 1000,  maxXP |-> 2500],
      [level |-> 3, minXP |-> 2500,  maxXP |-> 5000],
      [level |-> 4, minXP |-> 5000,  maxXP |-> 10000],
      [level |-> 5, minXP |-> 10000, maxXP |-> 20000],
      [level |-> 6, minXP |-> 20000, maxXP |-> 999999]>>

\* a userData whose level was not raised with its XP
userDataStale ==
    [currentXP |-> 1250, currentLevel |-> 1, currentStreak |-> 7, longestStreak |-> 12]

\* const userData of ProgressPage
userData ==
    [currentXP |-> 1250, currentLevel |-> 2, currentStreak |-> 7, longestStreak |-> 12]

\* const currentLevelData = levels.find(l => l.level === userData.currentLevel)
currentLevelData ==
    levels[CHOOSE i \in 1..Len(levels) : levels[i].level = userData.currentLevel]

\* reading .maxXP of undefined throws a TypeError and the page does not render
TypeError == [kind |-> "TypeError", value |-> 0]

\* const nextLevelData = levels.find(l => l.level === userData.currentLevel + 1)!
\* of a page whose userData is u; the set holds the entry found, if any
nextLevelData(u) ==
    {levels[i] : i \in {j \in 1..Len(levels) : levels[j].level = u.currentLevel + 1}}

\* const xpToNextLevel = nextLevelData.maxXP - userData.currentXP
xpToNextLevel(u) ==
    IF nextLevelData(u) = {} THEN TypeError
    ELSE Num((CHOOSE l \in nextLevelData(u) : TRUE).maxXP - u.currentXP)

\* level = max level_id such that min_xp_inclusive <= total_xp
LevelFor(xp) ==
    LET ids == {levels[i].level : i \in {j \in 1..Len(levels) : levels[j].minXP <= xp}}
    IN  CHOOSE l \in ids : \A m \in ids : m <= l

\* streak bonus: 3-day +10%, 7-day +25%, 30-day +100%
StreakBonus(streak) ==
    IF streak >= 30 THEN 100 ELSE IF streak >= 7 THEN 25 ELSE IF streak >= 3 THEN 10 ELSE 0

\* the bonuses multiplied into each other instead of added
BonusPercentCompounded(isFirst, rawScore, streak) ==
    ((IF isFirst THEN 120 ELSE 100) * (IF rawScore >= 95 THEN 150 ELSE 100)
        * (100 + StreakBonus(streak))) \div 10000 - 100

\* sum of the applicable bonus percentages
BonusPercent(isFirst, rawScore, streak) ==
    (IF isFirst THEN 20 ELSE 0) + (IF rawScore >= 95 THEN 50 ELSE 0) + StreakBonus(streak)

\* final XP = round(base * (1 + sum_of_applicable_bonus_fractions))
AwardedXP(base, isFirst, rawScore, streak) ==
    RoundRatio(base * (100 + BonusPercent(isFirst, rawScore, streak)), 100)

\* a streak update that counts a second completion of the same day as a new day
NextStreakCountsSameDay(streak, last, date) ==
    IF last # 0 /\ (date = last + 1 \/ date = last) THEN streak + 1
    ELSE 1

\* streak update of a completion dated date
NextStreak(streak, last, date) ==
    IF last # 0 /\ date = last + 1 THEN streak + 1
    ELSE IF last # 0 /\ date = last THEN streak
    ELSE 1

\* the streak bonus taken from the streak as the event's own update leaves it
BonusStreakAfterUpdate(streak, last, date) == NextStreak(streak, last, date)

\* the streak value the bonus is determined by: the one before this event's update
BonusStreak(streak, last, date) == streak

\* a longest streak that follows the current one
NextLongestIsCurrent(longest, streak) == streak

\* longest_streak_days = max(longest_streak_days, current_streak_days)
NextLongest(longest, streak) == Max(longest, streak)

\* a LevelUp event also when the level stays
LevelUpEventsAlways(oldLevel, newLevel) ==
    IF newLevel >= oldLevel
    THEN <<[old_level |-> oldLevel, new_level |-> newLevel]>>
    ELSE <<>>

\* if the new level's id exceeds the old level's id, emit a LevelUp event
LevelUpEvents(oldLevel, newLevel) ==
    IF newLevel > oldLevel
    THEN <<[old_level |-> oldLevel, new_level |-> newLevel]>>
    ELSE <<>>

\* badge definitions in declaration order: 'First Steps' (completed your first
\* simulation) and 'Streak Master' (30-day learning streak)
BadgeCatalog == <<"first_steps", "streak_master">>
BadgeHolds(b, n, streak) ==
    \/ b = "first_steps" /\ n >= 1
    \/ b = "streak_master" /\ streak >= 30

\* every badge whose predicate holds, the unlocked ones included
NewBadgesUnfiltered(unlocked, n, streak) ==
    SelectSeq(BadgeCatalog, LAMBDA b : BadgeHolds(b, n, streak))

\* every badge not yet in unlocked_badge_ids whose predicate now holds
NewBadges(unlocked, n, streak) ==
    SelectSeq(BadgeCatalog, LAMBDA b : b \notin unlocked /\ BadgeHolds(b, n, streak))

NoEvents == [xp |-> 0, level_up |-> <<>>, badges |-> <<>>, error |-> "none"]
NoCompletion == [base |-> 0, is_first_attempt |-> FALSE, raw_score |-> 0, completed_at |-> 0]

FreshState ==
    /\ total_xp = 0
    /\ current_level = 1
    /\ unlocked_badge_ids = {}
    /\ current_streak_days = 0
    /\ longest_streak_days = 0
    /\ last_activity_date = 0
    /\ today = 1
    /\ events = NoEvents
    /\ completion = NoCompletion
    /\ completions = 0
    /\ progressShown = FALSE

StoredState ==
    /\ total_xp \in SnapshotXP
    /\ current_level = LevelFor(total_xp)
    /\ unlocked_badge_ids = {"first_steps"}
    /\ current_streak_days \in SnapshotStreak
    /\ longest_streak_days \in {current_streak_days, 30}
    /\ last_activity_date = 1
    /\ today = 1
    /\ events = NoEvents
    /\ completion = NoCompletion
    /\ completions = 0
    /\ progressShown = FALSE

PrInit == FreshState

\* the calendar moves on by d days
AdvanceDay(d) ==
    /\ today + d <= MaxDay
    /\ today' = today + d
    /\ UNCHANGED <<total_xp, current_level, unlocked_badge_ids, current_streak_days,
                   longest_streak_days, last_activity_date, events, completion,
                   completions, progressShown>>

\* the engine applies one completion event and returns the new state and its events
ApplyCompletion(base, isFirst, rawScore) ==
    LET xp == AwardedXP(base, isFirst, rawScore,
                        BonusStreak(current_streak_days, last_activity_date, today))
        newXP == total_xp + xp
        newLevel == LevelFor(newXP)
        oldLevel == LevelFor(total_xp)
        streak == NextStreak(current_streak_days, last_activity_date, today)
        newBadges == NewBadges(unlocked_badge_ids, completions + 1, current_streak_days)
    IN  /\ completions < MaxCompletions
        /\ total_xp' = newXP
        /\ current_level' = newLevel
        /\ unlocked_badge_ids' = unlocked_badge_ids \cup {newBadges[i] : i \in 1..Len(newBadges)}
        /\ current_streak_days' = streak
        /\ longest_streak_days' = NextLongest(longest_streak_days, streak)
        /\ last_activity_date' = today
        /\ events' = [xp |-> xp,
                      level_up |-> LevelUpEvents(oldLevel, newLevel),
                      badges |-> newBadges,
                      error |-> "none"]
        /\ completion' = [base |-> base, is_first_attempt |-> isFirst,
                          raw_score |-> rawScore, completed_at |-> today]
        /\ completions' = completions + 1
        /\ UNCHANGED <<today, progressShown>>

\* a validation that fails after the streak has been updated
RejectCompletionAfterStreak(rawScore) ==
    /\ completions < MaxCompletions
    /\ rawScore \notin 0..100
    /\ current_streak_days' = NextStreak(current_streak_days, last_activity_date, today)
    /\ events' = [NoEvents EXCEPT !.error = "ValidationError"]
    /\ completion' = [NoCompletion EXCEPT !.raw_score = rawScore, !.completed_at = today]
    /\ completions' = completions + 1
    /\ UNCHANGED <<total_xp, current_level, unlocked_badge_ids,
                   longest_streak_days, last_activity_date, today, progressShown>>

\* the engine fails fast on an event whose raw_score is outside 0..100, before
\* anything is computed from it: no new state is returned
RejectCompletion(rawScore) ==
    /\ completions < MaxCompletions
    /\ rawScore \notin 0..100
    /\ events' = [NoEvents EXCEPT !.error = "ValidationError"]
    /\ completion' = [NoCompletion EXCEPT !.raw_score = rawScore, !.completed_at = today]
    /\ completions' = completions + 1
    /\ UNCHANGED <<total_xp, current_level, unlocked_badge_ids, current_streak_days,
                   longest_streak_days, last_activity_date, today, progressShown>>

\* ProgressPage renders: it shows userData
ViewProgress ==
    /\ progressShown' = ~progressShown
    /\ UNCHANGED <<total_xp, current_level, unlocked_badge_ids, current_streak_days,
                   longest_streak_days, last_activity_date, today, events, completion,
                   completions>>

(***************************************************************************)
(* Personality quiz page (unnamed/part_007)                                *)
(*                                                                         *)
(* The questions come from the server; question k (from 0) has the id k.   *)
(***************************************************************************)
VARIABLES
    currentQuestion,  \* PersonalityQuizPage.currentQuestion
    responses,        \* PersonalityQuizPage.responses
    selectedOption,   \* PersonalityQuizPage.selectedOption (NoOption is null)
    submitting,       \* PersonalityQuizPage.submitting
    quizError,        \* PersonalityQuizPage.error is not null
    allResponses,     \* body of the POST of submitQuiz, NotSubmitted before it
    quizPc,           \* "quiz", "fetch" (awaiting the POST), "results" (router.push)
    lastSelected      \* per question the option the user chose last (NoOption: none)

qzVars == <<currentQuestion, responses, selectedOption, submitting, quizError,
            allResponses, quizPc, lastSelected>>

\* questions.length - 1 and the highest option index that are explored
MaxQuestion == 2
MaxOption == 1
\* most responses kept in the state that are explored
MaxResponses == 5

QuestionIds == 0..MaxQuestion
OptionChoices == 0..MaxOption
NoOption == 0 - 1
NotSubmitted == <<>>

\* { question_id: questions[currentQuestion].id, selected_option: selectedOption }
Response(q, o) == [question_id |-> q, selected_option |-> o]

QzInit ==
    /\ currentQuestion = 0
    /\ responses = <<>>
    /\ selectedOption = NoOption
    /\ submitting = FALSE
    /\ quizError = FALSE
    /\ allResponses = NotSubmitted
    /\ quizPc = "quiz"
    /\ lastSelected = [q \in QuestionIds |-> NoOption]

\* the question card and the buttons are rendered
QuizShown == quizPc \in {"quiz", "fetch"} /\ ~quizError

\* handleOptionSelect
HandleOptionSelect(o) ==
    /\ QuizShown
    /\ o # selectedOption
    /\ selectedOption' = o
    /\ lastSelected' = [lastSelected EXCEPT ![currentQuestion] = o]
    /\ UNCHANGED <<currentQuestion, responses, submitting, quizError, allResponses, quizPc>>

\* handleNext (the button is disabled while selectedOption === null || submitting),
\* with the synchronous part of submitQuiz on the last question
HandleNext ==
    /\ QuizShown
    /\ selectedOption # NoOption
    /\ ~submitting
    /\ Len(responses) < MaxResponses
    /\ responses' = Append(responses, Response(currentQuestion, selectedOption))
    /\ IF currentQuestion < MaxQuestion
       THEN /\ currentQuestion' = currentQuestion + 1
            /\ selectedOption' = NoOption
            /\ UNCHANGED <<submitting, allResponses, quizPc>>
       ELSE /\ submitting' = TRUE
            /\ allResponses' = Append(responses, Response(currentQuestion, selectedOption))
            /\ quizPc' = "fetch"
            /\ UNCHANGED <<currentQuestion, selectedOption>>
    /\ UNCHANGED <<quizError, lastSelected>>

\* handleBack (the button is disabled while currentQuestion === 0)
HandleBack ==
    /\ QuizShown
    /\ currentQuestion > 0
    /\ currentQuestion' = currentQuestion - 1
    /\ selectedOption' = IF currentQuestion <= Len(responses)
                         THEN responses[currentQuestion].selected_option
                         ELSE selectedOption
    /\ UNCHANGED <<responses, submitting, quizError, allResponses, quizPc, lastSelected>>

\* the POST resolves with response.ok and a JSON body: router.push('/personality/results')
SubmitSucceeds ==
    /\ quizPc = "fetch"
    /\ quizPc' = "results"
    /\ UNCHANGED <<currentQuestion, responses, selectedOption, submitting, quizError,
                   allResponses, lastSelected>>

\* the POST rejects, is not ok, or its body is not JSON: the catch branch
SubmitFails ==
    /\ quizPc = "fetch"
    /\ quizError' = TRUE
    /\ submitting' = FALSE
    /\ quizPc' = "quiz"
    /\ UNCHANGED <<currentQuestion, responses, selectedOption, allResponses, lastSelected>>

\* "Try Again" of the error card: window.location.reload()
QuizReload ==
    /\ quizError
    /\ currentQuestion' = 0
    /\ responses' = <<>>
    /\ selectedOption' = NoOption
    /\ submitting' = FALSE
    /\ quizError' = FALSE
    /\ allResponses' = NotSubmitted
    /\ quizPc' = "quiz"
    /\ lastSelected' = [q \in QuestionIds |-> NoOption]

(***************************************************************************)
(* StepDebtSetup of the credit-card page: the closed-form payoff time of   *)
(* the minimum payment (unnamed/part_015)                                  *)
(***************************************************************************)
\* one in the fixed point of (1 + monthlyRate)^n
PayoffScale == 10000000

\* f * (1 + monthlyRate), monthlyRate = apr / 100 / 12 = a2 / 2400
GrowMonthly(f, a2) == f + (f \div 2400) * a2 + ((f % 2400) * a2) \div 2400

\* minimumPayment and minimumPayment - balance * monthlyRate, both times 24
PaymentTimes24(b) == (24 * MinimumPayment(b)) \div 100
ShortfallTimes24(b, a2) == PaymentTimes24(b) - (b * a2) \div 100

\* minimumPayment / (minimumPayment - balance * monthlyRate), scaled by PayoffScale
PayoffRatio(b, a2) ==
    LET g == PaymentTimes24(b)
        d == ShortfallTimes24(b, a2)
    IN  (g \div d) * PayoffScale + (((g % d) * (PayoffScale \div 100)) \div d) * 100

\* the least n with (1 + monthlyRate)^n >= ratio: Math.log(ratio) / Math.log(1 + monthlyRate)
\* rounded up to whole months
RECURSIVE LogRatioRoundedUp(_, _, _, _)
LogRatioRoundedUp(f, ratio, a2, n) ==
    IF f >= ratio \/ n >= 2 * CapMonths THEN n
    ELSE LogRatioRoundedUp(GrowMonthly(f, a2), ratio, a2, n + 1)

\* monthsToPayoff where minimumPayment - balance * monthlyRate is a rounding error
\* above 0 (balance 1000 at 30%): Math.log(25 / 3.55e-15) / Math.log(1.025) = 1477.77
MonthsAtRoundingError == 1478

\* const monthsToPayoff = Math.log(minimumPayment / (minimumPayment - balance * monthlyRate))
\*                        / Math.log(1 + monthlyRate), rounded up to whole months:
\* the logarithm of a negative quotient is NaN, that of minimumPayment / 0 is Infinity
monthsToPayoff(b, a2) ==
    LET d == ShortfallTimes24(b, a2)
    IN  IF d < 0 THEN NaN
        ELSE IF d = 0
             THEN (IF RateRoundsDown(a2) THEN Num(MonthsAtRoundingError) ELSE Inf)
             ELSE Num(LogRatioRoundedUp(PayoffScale, PayoffRatio(b, a2), a2, 0))

(***************************************************************************)
(* Specifications                                                          *)
(***************************************************************************)
vars == <<ccVars, efVars, upVars, bbVars, csVars, pgVars, ciVars, prVars, fvVars, qzVars>>

ccOthers == <<efVars, upVars, bbVars, csVars, pgVars, ciVars, prVars, fvVars, qzVars>>
efOthers == <<ccVars, upVars, bbVars, csVars, pgVars, ciVars, prVars, fvVars, qzVars>>
upOthers == <<ccVars, efVars, bbVars, csVars, pgVars, ciVars, prVars, fvVars, qzVars>>
bbOthers == <<ccVars, efVars, upVars, csVars, pgVars, ciVars, prVars, fvVars, qzVars>>
csOthers == <<ccVars, efVars, upVars, bbVars, pgVars, ciVars, prVars, fvVars, qzVars>>
pgOthers == <<ccVars, efVars, upVars, bbVars, csVars, ciVars, prVars, fvVars, qzVars>>
ciOthers == <<ccVars, efVars, upVars, bbVars, csVars, pgVars, prVars, fvVars, qzVars>>
prOthers == <<ccVars, efVars, upVars, bbVars, csVars, pgVars, ciVars, fvVars, qzVars>>
fvOthers == <<ccVars, efVars, upVars, bbVars, csVars, pgVars, ciVars, prVars, qzVars>>
qzOthers == <<ccVars, efVars, upVars, bbVars, csVars, pgVars, ciVars, prVars, fvVars>>

\* the updaters have not been applied: the characters of the race
UpIdle ==
    /\ uSarah = SarahInit
    /\ uMike = MikeInit
    /\ uApplied = "none"
    /\ uCost = 0
    /\ uCount = 0

Pages == CcInit /\ EfInit /\ BbInit /\ CsInit /\ PgInit /\ CiInit /\ QzInit

Init == Pages /\ UpIdle /\ PrInit /\ FvIdle

InitUpdaters == Pages /\ UpInit /\ PrInit /\ FvIdle

InitProgress == Pages /\ UpIdle /\ (FreshState \/ StoredState) /\ FvIdle

InitFutureValue == Pages /\ UpIdle /\ PrInit /\ FvInit

NextPayoff ==
    \/ \E b \in BalanceChoices : SetBalance(b) /\ UNCHANGED ccOthers
    \/ \E a \in AprChoices : SetApr(a) /\ UNCHANGED ccOthers
    \/ CompareStrategies /\ UNCHANGED ccOthers
    \/ CalcEnter /\ UNCHANGED ccOthers
    \/ CalcLoop /\ UNCHANGED ccOthers
    \/ CalcExit /\ UNCHANGED ccOthers
    \/ CalcCollect /\ UNCHANGED ccOthers
    \/ CcAdvance /\ UNCHANGED ccOthers

SpecPayoff == Init /\ [][NextPayoff]_vars

NextRace ==
    \/ StartSimulation /\ UNCHANGED efOthers
    \/ RunEffect /\ UNCHANGED efOthers
    \/ Tick /\ UNCHANGED efOthers
    \/ TimerFires /\ UNCHANGED efOthers
    \/ EmergencyTimerFires /\ UNCHANGED efOthers
    \/ ClickSeeFinalResults /\ UNCHANGED efOthers
    \/ RaceUnmounts /\ UNCHANGED efOthers
    \/ EfAdvance /\ UNCHANGED efOthers

SpecRace == Init /\ [][NextRace]_vars

NextUpdaters ==
    \/ \E e \in EventSet : ApplyEmergency(e) /\ UNCHANGED upOthers
    \/ ApplyNormal /\ UNCHANGED upOthers

SpecUpdaters == InitUpdaters /\ [][NextUpdaters]_vars

NextBudget ==
    \/ \E v \in IncomeChoices : SetIncome(v) /\ UNCHANGED bbOthers
    \/ StartBuilding /\ UNCHANGED bbOthers
    \/ \E i \in Movable : \E v \in SliderPositions(i, bbIncome) : SetAmount(i, v) /\ UNCHANGED bbOthers
    \/ ReviewBudget /\ UNCHANGED bbOthers
    \/ BbAdvance /\ UNCHANGED bbOthers

SpecBudget == Init /\ [][NextBudget]_vars

NextCoffee ==
    \/ \E g \in GuessChoices : SetGuess(g) /\ UNCHANGED csOthers
    \/ LockInGuess /\ UNCHANGED csOthers
    \/ CsAdvance /\ UNCHANGED csOthers
    \/ \E y \in YearsChoices : SetYears(y) /\ UNCHANGED csOthers
    \/ HandleComplete /\ UNCHANGED csOthers
    \/ \E ok \in BOOLEAN : FetchResolves(ok) /\ UNCHANGED csOthers
    \/ FetchRejects /\ UNCHANGED csOthers
    \/ \E wellFormed \in BOOLEAN : JsonResolves(wellFormed) /\ UNCHANGED csOthers
    \/ JsonRejects /\ UNCHANGED csOthers

SpecCoffee == Init /\ [][NextCoffee]_vars

\* the two pages that build a period sequence, side by side
NextSequences ==
    \/ NextRace
    \/ NextCoffee

SpecSequences == Init /\ [][NextSequences]_vars

NextPaycheck ==
    \/ \E v \in SetupIncomeChoices : SetSetupIncome(v) /\ UNCHANGED pgOthers
    \/ \E n \in ExpenseNames : \E v \in SetupExpenseChoices[n] :
            SetSetupExpense(n, v) /\ UNCHANGED pgOthers
    \/ ChooseYourStrategy /\ UNCHANGED pgOthers
    \/ \E st \in Strategies : SelectStrategy(st) /\ UNCHANGED pgOthers
    \/ SeeWhatHappens /\ UNCHANGED pgOthers
    \/ PgAdvance /\ UNCHANGED pgOthers

SpecPaycheck == Init /\ [][NextPaycheck]_vars

NextCompound ==
    \/ StartRace /\ UNCHANGED ciOthers
    \/ \E a \in RaceStartAge..RetirementAge : SetCurrentAge(a) /\ UNCHANGED ciOthers
    \/ ResetRace /\ UNCHANGED ciOthers
    \/ TogglePlay /\ UNCHANGED ciOthers
    \/ SkipToEnd /\ UNCHANGED ciOthers
    \/ SeeFinalResults /\ UNCHANGED ciOthers
    \/ OpenCalculator /\ UNCHANGED ciOthers
    \/ \E a \in CalcAgeChoices : SetCalcAge(a) /\ UNCHANGED ciOthers
    \/ \E m \in MonthlyAmountChoices : SetMonthlyAmount(m) /\ UNCHANGED ciOthers
    \/ \E y \in YearsInvestingChoices : SetYearsInvesting(y) /\ UNCHANGED ciOthers
    \/ CiHandleComplete /\ UNCHANGED ciOthers

SpecCompound == Init /\ [][NextCompound]_vars

NextProgress ==
    \/ \E d \in {1, 2} : AdvanceDay(d) /\ UNCHANGED prOthers
    \/ \E base \in BaseXPChoices : \E isFirst \in BOOLEAN : \E rawScore \in RawScoreChoices :
            ApplyCompletion(base, isFirst, rawScore) /\ UNCHANGED prOthers
    \/ \E rawScore \in InvalidScoreChoices : RejectCompletion(rawScore) /\ UNCHANGED prOthers
    \/ ViewProgress /\ UNCHANGED prOthers

SpecProgress == InitProgress /\ [][NextProgress]_vars

NextQuiz ==
    \/ \E o \in OptionChoices : HandleOptionSelect(o) /\ UNCHANGED qzOthers
    \/ HandleNext /\ UNCHANGED qzOthers
    \/ HandleBack /\ UNCHANGED qzOthers
    \/ SubmitSucceeds /\ UNCHANGED qzOthers
    \/ SubmitFails /\ UNCHANGED qzOthers
    \/ QuizReload /\ UNCHANGED qzOthers

SpecQuiz == Init /\ [][NextQuiz]_vars

NextFutureValue ==
    \/ CallFutureValue /\ UNCHANGED fvOthers

SpecFutureValue == InitFutureValue /\ [][NextFutureValue]_vars

\* the six simulation wizards are routes of one application: one page is
\* mounted at a time, and a page that is not mounted holds its initial state
NextWizards ==
    \/ EfInit /\ BbInit /\ CsInit /\ PgInit /\ CiInit /\ NextPayoff
    \/ CcInit /\ BbInit /\ CsInit /\ PgInit /\ CiInit /\ NextRace
    \/ CcInit /\ EfInit /\ CsInit /\ PgInit /\ CiInit /\ NextBudget
    \/ CcInit /\ EfInit /\ BbInit /\ PgInit /\ CiInit /\ NextCoffee
    \/ CcInit /\ EfInit /\ BbInit /\ CsInit /\ CiInit /\ NextPaycheck
    \/ CcInit /\ EfInit /\ BbInit /\ CsInit /\ PgInit /\ NextCompound

SpecWizards == Init /\ [][NextWizards]_vars

\* calculatePayoff is a synchronous loop: once entered it runs to its return
SpecPayoffFair == SpecPayoff /\ WF_vars(NextPayoff)

\* the promises that handleComplete awaits settle: the browser resolves or
\* rejects every fetch and every response.json()
RequestSettles ==
    /\ \/ \E ok \in BOOLEAN : FetchResolves(ok)
       \/ FetchRejects
       \/ \E wellFormed \in BOOLEAN : JsonResolves(wellFormed)
       \/ JsonRejects
    /\ UNCHANGED csOthers

SpecCoffeeFair == SpecCoffee /\ WF_vars(RequestSettles)

(***************************************************************************)
(* Properties                                                              *)
(***************************************************************************)
IsNonConvergent(r) == r.totalPaid = Infinity

\* C1: a monthly payment at or below balance x monthly rate always yields a
\* NonConvergent result, and that result carries the minimum payment needed
\* (with which the payoff then converges).
C1_ThresholdYieldsMinimumPayment ==
    (ccPc = "ret" /\ MonthlyPayment(strategyIdx, balance) * 2400 <= balance * 100 * apr2)
        => /\ IsNonConvergent(result)
           /\ "minimum_payment_needed" \in DOMAIN result

\* C2: within a payoff the remaining balance strictly decreases from each
\* period to the next, and a result returned as a normal payoff leaves no
\* balance; otherwise the result is NonConvergent.
C2_BalanceDecreasesToZero ==
    [][/\ (ccPc = "loop" /\ ccPc' = "loop") => remainingBalance' < remainingBalance
       /\ (ccPc = "loop" /\ ccPc' = "ret" /\ ~IsNonConvergent(result'))
              => remainingBalance' = 0]_vars

\* C3: the payoff iteration never runs more than 600 periods and always
\* reaches its return, also for payments that never cover the interest.
C3_PayoffTerminates ==
    /\ [](months <= CapMonths)
    /\ (ccPc = "loop") ~> (ccPc = "ret")

\* a payoff that was ended by the cap of 600 periods
C3_Witness == ccPc = "ret" /\ months = CapMonths /\ remainingBalance > 0

C7_ScoreIsAccuracy ==
    completePc # "idle" =>
        /\ ActualCost = 1430
        /\ completeScore \in 0..100
        /\ completeScore * 1430 = Max(0, 143000 - 100 * Abs(1430 - userGuess))

\* C7 amended: the score is that value rounded to the nearest whole number;
\* a guess of 500 scores exactly 35.
C7_ScoreIsRoundedAccuracy ==
    completePc # "idle" =>
        LET acc == Max(0, 143000 - 100 * Abs(1430 - userGuess))
        IN  /\ ActualCost = 1430
            /\ completeScore \in 0..100
            /\ 2 * acc - 1430 < 2 * completeScore * 1430
            /\ 2 * completeScore * 1430 <= 2 * acc + 1430
            /\ userGuess = 500 => completeScore = 35

\* the completion of a run whose guess was 500
C7_Witness == completePc # "idle" /\ userGuess = 500 /\ completeScore = 35

\* C8: with income above expenses, spend-first spends more than the remaining
\* cash, pays a late fee and is flagged as not paid on time; bills-first and
\* save-first pay no late fee and are flagged as paid on time.
C8_SpendFirstOverspends ==
    (pgStep = 3 /\ pgIncome > pgExpenses) =>
        /\ StrategyResults["spend_first"].discretionary_spent > (pgIncome - pgExpenses) * 100
        /\ StrategyResults["spend_first"].late_fees > 0
        /\ ~StrategyResults["spend_first"].bills_paid_on_time
        /\ \A s \in {"bills_first", "save_first"} :
               /\ StrategyResults[s].late_fees = 0
               /\ StrategyResults[s].bills_paid_on_time

\* the results step of a run in which spend-first was chosen
C8_Witness == pgStep = 3 /\ pgIncome > pgExpenses /\ pgStrategy = "spend_first"

\* the profiles in descending order of the balance StepRace computes at an age
IsRankingAt(seq, age) ==
    /\ {seq[i] : i \in 1..Len(seq)} = RaceProfiles
    /\ Len(seq) = 3
    /\ \A i \in 1..2 : RaceValue(seq[i], age).balance > RaceValue(seq[i + 1], age).balance

\* C9: the final ranking is the order of the values computed at age 65, and the
\* early, short contributor (300 a month from 25 to 35) ends above the late,
\* long contributor (300 a month from 35 to 65).
C9_RankedByFinalValue ==
    /\ (ciStep = 2 /\ currentAge = RetirementAge) =>
           RaceValue("Emma", currentAge).balance > RaceValue("Steven", currentAge).balance
    /\ ciStep = 3 =>
           /\ IsRankingAt(Podium, RetirementAge)
           /\ \A i \in 1..2 :
                  ResultsProfile[Podium[i]].finalValue > ResultsProfile[Podium[i + 1]].finalValue
           /\ ResultsProfile["Emma"].finalValue > ResultsProfile["Steven"].finalValue

\* the results step, reached from a race that stood at age 65
C9_Witness == ciStep = 3 /\ currentAge = RetirementAge

Applied == completions' = completions + 1 /\ events'.error = "none"

\* C11: the XP awarded is round(base x (1 + sum of the applicable bonus
\* fractions)), the bonuses added together: +20% first attempt, +50% raw_score
\* >= 95, +10% / +25% / +100% for a streak of 3 / 7 / 30 days; base 100, raw
\* score 100, first attempt and a 7-day streak give 195.
C11_XPIsBaseTimesSumOfBonuses ==
    [][Applied =>
        LET e == completion'
            first == IF e.is_first_attempt THEN 20 ELSE 0
            perfect == IF e.raw_score >= 95 THEN 50 ELSE 0
            streak == IF current_streak_days >= 30 THEN 100
                      ELSE IF current_streak_days >= 7 THEN 25
                      ELSE IF current_streak_days >= 3 THEN 10 ELSE 0
            exact == e.base * (100 + first + perfect + streak)
        IN  /\ Abs(100 * events'.xp - exact) <= 50
            /\ total_xp' = total_xp + events'.xp
            /\ (e.base = 100 /\ e.raw_score = 100 /\ e.is_first_attempt
                    /\ current_streak_days = 7) => events'.xp = 195
    ]_vars

\* a first, perfect completion of a 100 XP simulation has been awarded 195 XP
C11_Witness ==
    /\ events.error = "none" /\ events.xp = 195
    /\ completion.base = 100 /\ completion.raw_score = 100 /\ completion.is_first_attempt

\* C12: an event that raises the streak over a threshold (2 to 3, 6 to 7, 29 to
\* 30) is awarded the streak bonus of the count it started from, not the bonus
\* of the threshold it reaches; an event that resets a streak is still awarded
\* the bonus of the streak it resets.
C12_BonusUsesStreakBeforeUpdate ==
    [][Applied =>
        LET e == completion'
            flat == e.base * (100 + (IF e.is_first_attempt THEN 20 ELSE 0)
                                  + (IF e.raw_score >= 95 THEN 50 ELSE 0))
            streakPart == 100 * events'.xp - flat
        IN  /\ (current_streak_days = 2 /\ current_streak_days' = 3) =>
                   Abs(streakPart) <= 50
            /\ (current_streak_days = 6 /\ current_streak_days' = 7) =>
                   Abs(streakPart - e.base * 10) <= 50
            /\ (current_streak_days = 29 /\ current_streak_days' = 30) =>
                   Abs(streakPart - e.base * 25) <= 50
            /\ (current_streak_days >= 30 /\ current_streak_days' = 1) =>
                   Abs(streakPart - e.base * 100) <= 50
            /\ (current_streak_days \in 7..29 /\ current_streak_days' = 1) =>
                   Abs(streakPart - e.base * 25) <= 50
    ]_vars

\* a completion has raised the streak to 7 and was awarded the 3-day bonus
C12_Witness ==
    /\ events.error = "none" /\ current_streak_days = 7
    /\ completion.base = 100 /\ ~completion.is_first_attempt /\ completion.raw_score = 60
    /\ events.xp = 110

C14_StreakUpdate ==
    [][Applied =>
        LET date == completion'.completed_at
            last == last_activity_date
        IN  /\ (last # 0 /\ date = last + 1) => current_streak_days' = current_streak_days + 1
            /\ (last # 0 /\ date = last) => current_streak_days' = current_streak_days
            /\ (last = 0 \/ date >= last + 2) => current_streak_days' = 1
            /\ last_activity_date' = date
    ]_vars

\* a completion on the day after the last activity has taken a streak from 2 to 3
C14_Witness ==
    /\ events.error = "none" /\ completions >= 1
    /\ current_streak_days = 3 /\ last_activity_date = 2

\* C15: longest_streak_days is at least current_streak_days and never decreases.
C15_LongestStreakIsMonotone ==
    /\ [](longest_streak_days >= current_streak_days)
    /\ [][longest_streak_days' >= longest_streak_days]_vars

\* a streak has been reset to 1 below a longest streak of 30
C15_Witness ==
    /\ events.error = "none" /\ completions >= 1
    /\ current_streak_days = 1 /\ longest_streak_days = 30

\* C16: the set of unlocked badges only grows, and a badge is emitted only
\* when it was not unlocked before, so each badge is emitted at most once.
C16_BadgesOnlyGrow ==
    [][/\ unlocked_badge_ids \subseteq unlocked_badge_ids'
       /\ Applied =>
            LET emitted == events'.badges
            IN  /\ \A i \in 1..Len(emitted) : emitted[i] \notin unlocked_badge_ids
                /\ \A i, j \in 1..Len(emitted) : emitted[i] = emitted[j] => i = j
                /\ unlocked_badge_ids' =
                       unlocked_badge_ids \cup {emitted[i] : i \in 1..Len(emitted)}
       /\ ~Applied => unlocked_badge_ids' = unlocked_badge_ids
    ]_vars

\* a second badge has been emitted on its own and the first one is still unlocked
C16_Witness ==
    /\ events.badges = <<"streak_master">>
    /\ unlocked_badge_ids = {"first_steps", "streak_master"}

FinalSarah == [emergencyFund |-> 4700 * MoneyScale, debt |-> 0, stress |-> 4]
FinalMike == [emergencyFund |-> 0, debt |-> 37009377, stress |-> 20]

\* C5: whatever the timing of the timeouts, the race hands the same state to
\* the results step: month 12, the four emergencies of months 2, 5, 8 and 11,
\* and the same fund, debt and stress of both actors.
C5_RaceDeterministic ==
    efStep >= 3 =>
        /\ currentMonth = RaceMonths
        /\ pageSarah = FinalSarah
        /\ pageMike = FinalMike
        /\ pageEmergencies = emergencyEvents

\* the results step has been reached after a timeout had been kept waiting
C5_Witness == efStep = 3 /\ handoffs = 1 /\ pageEmergencies # <<>>


(***************************************************************************)
(* C18: the period sequence of a simulation result has exactly as many     *)
(* entries as the requested horizon: the timeline that the results step of *)
(* the 12-month emergency-fund race builds has 12 entries, and the rows    *)
(* that the habit-cost step builds for a horizon of N years are N.         *)
(***************************************************************************)
C18_SequenceLengthIsHorizon ==
    /\ (efStep = 3 /\ ~raceMounted) => Len(TimelineData(pageEmergencies)) = RaceMonths
    /\ csStep = 3 => Len(CompoundData(compoundYears)) = compoundYears


MonthProcessedOnce ==
    /\ currentMonth < RaceMonths
    /\ currentMonth' = currentMonth + 1
    /\ emergencies' = emergencies
    /\ LET emergency == FindEmergency(currentMonth)
       IN  IF emergency # NoEmergency
           THEN /\ sarah' = SarahEmergency(sarah, emergency.cost)
                /\ mike' = MikeEmergency(mike, emergency.cost)
                /\ Len(emergencies) > 0
                /\ emergencies[Len(emergencies)] = emergency
           ELSE /\ sarah' = SarahNormal(sarah)
                /\ mike' = MikeNormal(mike)

\* a step that records the emergency of the month currentMonth, once
EmergencyRecordedOnce ==
    /\ FindEmergency(currentMonth) # NoEmergency
    /\ \A i \in 1..Len(emergencies) : emergencies[i] # FindEmergency(currentMonth)
    /\ emergencies' = Append(emergencies, FindEmergency(currentMonth))
    /\ <<currentMonth, sarah, mike>>' = <<currentMonth, sarah, mike>>

\* a step that hands the state of month 12 to the page
MonthTwelveHandedOver ==
    /\ handoffs' = handoffs + 1
    /\ currentMonth = RaceMonths
    /\ pageSarah' = sarah
    /\ pageMike' = mike
    /\ pageEmergencies' = emergencies
    /\ efStep' = 3

\* every step of the race that changes the month, an actor or the list of
\* emergencies processes one month once
EveryMonthOnce ==
    /\ <<currentMonth, sarah, mike>>' # <<currentMonth, sarah, mike>> => MonthProcessedOnce
    /\ emergencies' # emergencies => EmergencyRecordedOnce

(***************************************************************************)
(* C20, as stated: under any interleaving of the two timeouts, re-renders  *)
(* and the effect's cleanup the month counter takes the values 0 to 12,    *)
(* each month is processed exactly once, and the state of month 12 is      *)
(* handed to the results step exactly once.                                *)
(***************************************************************************)
C20_EachMonthOnceAndOneHandOff ==
    /\ [](currentMonth \in 0..RaceMonths /\ handoffs <= 1 /\ (efStep >= 3 => handoffs = 1))
    /\ [][EveryMonthOnce /\ (handoffs' # handoffs => MonthTwelveHandedOver)]_vars

(***************************************************************************)
(* C20, amended: the month counter takes the values 0 to 12 and each month *)
(* is processed exactly once; the effect hands the state of month 12 to    *)
(* the results step exactly once, and every further hand-over is a press   *)
(* of "See Final Results" while the race step is leaving, which hands over *)
(* the same state again.                                                   *)
(***************************************************************************)
C20_EachMonthOnceAndOneHandOffByEffect ==
    /\ [](currentMonth \in 0..RaceMonths /\ (efStep >= 3 => handoffs >= 1))
    /\ [][/\ EveryMonthOnce
          /\ handoffs' # handoffs =>
                /\ MonthTwelveHandedOver
                /\ effectPending => handoffs = 0
                /\ ~effectPending => (handoffs >= 1 /\ UNCHANGED <<pageSarah, pageMike, pageEmergencies, efStep>>)]_vars

\* the race has run its twelve months and its state has been handed over by
\* the effect and once more by the button
C20_Witness ==
    /\ currentMonth = RaceMonths
    /\ handoffs = 2
    /\ ~raceMounted
    /\ Len(pageEmergencies) = Len(emergencyEvents)


\* StepResults: const sarahNetWorth = sarah.emergencyFund - sarah.debt (likewise mike)
NetWorth(character) == character.emergencyFund - character.debt

(***************************************************************************)
(* C21: on the results step of the emergency-fund page the month-12 point  *)
(* of the net-worth timeline of each actor equals that actor's headline    *)
(* net worth, fund minus debt of the final state of the race.              *)
(***************************************************************************)
C21_TimelineEndsAtHeadlineNetWorth ==
    (efStep = 3 /\ ~raceMounted) =>
        /\ TimelineData(pageEmergencies)[RaceMonths + 1].sarah = NetWorth(pageSarah)
        /\ TimelineData(pageEmergencies)[RaceMonths + 1].mike = NetWorth(pageMike)


(***************************************************************************)
(* C22: for the balance and APR chosen in step 1 of the credit-card page   *)
(* the closed-form payoff time of the minimum payment shown there, rounded *)
(* up to whole months, is the number of months that step 2 reports for the *)
(* strategy 'Minimum Only', also where the minimum payment never pays the  *)
(* debt off.                                                               *)
(***************************************************************************)
C22_ClosedFormAgreesWithIteration ==
    Len(results) >= 1 =>
        /\ monthsToPayoff(balance, apr2).kind = "num"
        /\ monthsToPayoff(balance, apr2).value = results[1].months


(***************************************************************************)
(* C23: whatever options were selected and however Next and Back were      *)
(* pressed in the personality quiz, the responses submitted at the end     *)
(* hold exactly one response per question, in question order, each with    *)
(* the option selected last for its question.                              *)
(***************************************************************************)
C23_OneResponsePerQuestion ==
    [][(allResponses' # allResponses /\ allResponses' # NotSubmitted) =>
          /\ Len(allResponses') = MaxQuestion + 1
          /\ \A i \in 1..Len(allResponses') :
                /\ allResponses'[i].question_id = i - 1
                /\ allResponses'[i].selected_option = lastSelected[i - 1]]_vars


(***************************************************************************)
(* C24: in the race of the compound-interest page, once the animation is   *)
(* playing at an age below 65 and is not paused, the age advances one year *)
(* at a time up to 65: in every state that plays below 65 the timer step   *)
(* that advances the age by one year is pending.                           *)
(***************************************************************************)
C24_PlaybackRunsToRetirement ==
    (ciStep = 2 /\ isPlaying /\ currentAge < RetirementAge) =>
        ENABLED (AutoPlayTimerFires /\ UNCHANGED ciOthers)


(***************************************************************************)
(* C25: in the personal calculator of the compound-interest page, however  *)
(* the three sliders were moved, the contribution period of the headline   *)
(* figures ends at age 65 at the latest, and the headline total invested   *)
(* and final value are the invested amount and the balance of the last     *)
(* chart row, the row of age 65.                                           *)
(***************************************************************************)
C25_HeadlineIsLastChartRow ==
    ciStep = 4 =>
        LET headline == CalculatorHeadline(calcAge, monthlyAmount, yearsInvesting)
            chartData == ChartData(calcAge, monthlyAmount, yearsInvesting)
            last == chartData[Len(chartData)]
        IN  /\ calcAge + yearsInvesting <= RetirementAge
            /\ last.age = RetirementAge
            /\ headline.totalInvested = last.invested
            /\ headline.finalValue = last.balance


(***************************************************************************)
(* C26: for every income and total of expenses that step 1 of the paycheck *)
(* game hands on (income above expenses) and for every strategy, the       *)
(* amount saved and the discretionary spending of the result are at least  *)
(* zero.                                                                   *)
(***************************************************************************)
C26_SavedAndSpentNonNegative ==
    (pgStep = 3 /\ pgIncome > pgExpenses) =>
        \A s \in Strategies :
            /\ StrategyResults[s].amount_saved >= 0
            /\ StrategyResults[s].discretionary_spent >= 0

(***************************************************************************)
(* C27: the budget builder shows the scored review (step 3 and after) only *)
(* with a budget whose total differs from the income by less than 10, and  *)
(* the step from the allocation to the review is taken only while the      *)
(* sliders are balanced in that sense.                                     *)
(***************************************************************************)
C27_ReviewOnlyWhenBalanced ==
    /\ bbStep >= 3 => Abs(SumAmounts(budget) - bbIncome) < 10
    /\ bbStep >= 3 => budget = BudgetItems(amounts)

\* a reviewed budget that the sliders changed and that is off the income by
\* some dollars, fewer than ten
C27_Witness ==
    /\ bbStep = 3
    /\ \E i \in Movable : budget[i].amount # InitialAmount(i, bbIncome)
    /\ SumAmounts(budget) # bbIncome
    /\ Abs(SumAmounts(budget) - bbIncome) < 10

(***************************************************************************)
(* C28: the XP-to-next-level figure that the progress page shows is a      *)
(* number at every level, and below the highest level it is the minimum XP *)
(* of the next level minus the user's current XP.                          *)
(***************************************************************************)
C28_XpToNextIsNextMinimumLessCurrent ==
    progressShown =>
        /\ xpToNextLevel(userData).kind = "num"
        /\ \A i \in 1..Len(levels) :
               levels[i].level = userData.currentLevel + 1 =>
                   xpToNextLevel(userData).value = levels[i].minXP - userData.currentXP

(***************************************************************************)
(* C29: every call of handleComplete of the coffee-shop page comes to its  *)
(* end, and at its end, whatever the request did (resolved OK with the     *)
(* expected body, resolved not OK, resolved with another body, rejected),  *)
(* an alert has been shown, the dashboard has been navigated to and        *)
(* loading is false.                                                       *)
(***************************************************************************)
C29_CompletionAlwaysFinishes ==
    /\ [](completePc = "done" =>
              /\ alertShown \in {"xp", "fallback"}
              /\ redirected
              /\ ~loading)
    /\ [](completePc \in {"fetch", "json"} => loading /\ ~redirected /\ alertShown = "none")
    /\ (completePc \in {"fetch", "json"}) ~> (completePc = "done")

\* the request failed and the handler has ended with the fallback message
C29_Witness ==
    /\ completePc = "done"
    /\ alertShown = "fallback"
    /\ redirected
    /\ ~loading

(***************************************************************************)
(* C30: in each of the six simulation wizards the current step is 1 at the *)
(* start, always lies in 1..4, and a step of the program either leaves it  *)
(* alone or raises it by one; at 4 it stays.                               *)
(***************************************************************************)
WizardSteps == <<ccStep, efStep, bbStep, csStep, pgStep, ciStep>>

=============================================================================
